---------------------------- MODULE Spec2Model ----------------------------
(***************************************************************************)
(* Model of the CalDAV reconciliation engine of pomodoro.py:               *)
(* PomodoroDatabase (sessions and sync_mapping tables), CalDAVSync         *)
(* (sync_to_calendar = push, sync_from_calendar = pull, sync) and the      *)
(* threads of start_stats_server that call them.                           *)
(*                                                                         *)
(* Text is a sequence of tokens: every letter is a token, and so are the   *)
(* tomato emoji U+1F345 (written "<tomato>"), the word "pomodoro", the UID *)
(* prefix "pomodoro-" and the UID suffix "@pomodoro-timer".                *)
(* Time is counted in ticks of half a second, so that a stored timestamp   *)
(* can carry a fraction of a second.                                       *)
(***************************************************************************)
EXTENDS Integers, Sequences, FiniteSets, TLC

(***************************************************************************)
(* Bounds of the model.                                                    *)
(***************************************************************************)
\* the session ids the API creates
MaxId == 2
\* the outside changes, the calls of the engine and the exceptions raised
\* in a behaviour
MaxEnv == 2
MaxCalls == 2
MaxFaults == 1
\* the outside changes and the calls in a behaviour where nothing raises
CleanEnv == 3
CleanCalls == 3

(***************************************************************************)
(* Program constants.                                                      *)
(***************************************************************************)
TicksPerSecond == 2
ToleranceMinutes == 5
DefaultMinutes == 25

NoTime == -1
NoId == 0
NoText == << >>

TOMATO == "<tomato>"
KEYWORD == "pomodoro"
UID_PREFIX == "pomodoro-"
UID_SUFFIX == "@pomodoro-timer"
IMPORTED_SESSION == <<"Imported Session">>

Range(s) == {s[i] : i \in 1..Len(s)}

Min2(a, b) == IF a <= b THEN a ELSE b

Abs(x) == IF x < 0 THEN -x ELSE x

\* int(x) of Python and CAST(x AS INTEGER) of SQLite: truncation toward zero.
TruncDiv(x, d) == IF x >= 0 THEN x \div d ELSE -((-x) \div d)

IdText == <<"1", "2", "3", "4", "5">>

\* a UID that is not built from the id of the session itself
SessionUid_of_next(id) == <<UID_PREFIX, IdText[id + 1], UID_SUFFIX>>

\* f"pomodoro-{session['id']}@pomodoro-timer"
SessionUid(id) == <<UID_PREFIX, IdText[id], UID_SUFFIX>>

\* uid.startswith('pomodoro-') and '@pomodoro-timer' in uid
IsPomodoroUid(uid) ==
    /\ Len(uid) > 0
    /\ uid[1] = UID_PREFIX
    /\ UID_SUFFIX \in Range(uid)

\* summary.lower(): only the keyword has an upper-case spelling in the model
Lower(text) == [i \in 1..Len(text) |-> IF text[i] = "Pomodoro" THEN KEYWORD ELSE text[i]]

\* '🍅' in summary or 'pomodoro' in summary.lower()
HasMarker(summary) == TOMATO \in Range(summary) \/ KEYWORD \in Range(Lower(summary))

\* summary.replace('🍅', '')
RECURSIVE RemoveTomato(_)
RemoveTomato(text) ==
    IF text = << >> THEN << >>
    ELSE IF Head(text) = TOMATO THEN RemoveTomato(Tail(text))
    ELSE <<Head(text)>> \o RemoveTomato(Tail(text))

RECURSIVE LStrip(_)
LStrip(text) ==
    IF text = << >> THEN << >>
    ELSE IF Head(text) = " " THEN LStrip(Tail(text))
    ELSE text

RECURSIVE RStrip(_)
RStrip(text) ==
    IF text = << >> THEN << >>
    ELSE IF text[Len(text)] = " " THEN RStrip(SubSeq(text, 1, Len(text) - 1))
    ELSE text

\* str.strip()
Strip(text) == RStrip(LStrip(text))

\* f"🍅 {session['task_name']}"
SummaryOf(task_name) == <<TOMATO, " ">> \o task_name

\* summary.replace('🍅', '').strip(), or 'Imported Session' when that is empty
\* the summary with the emoji removed but its blanks kept
TaskNameOf_unstripped(summary) == RemoveTomato(summary)

TaskNameOf(summary) ==
    LET t == Strip(RemoveTomato(summary))
    IN  IF t = << >> THEN IMPORTED_SESSION ELSE t

\* The iCalendar DATE-TIME form has whole seconds only.
ToICalTime(t) == IF t = NoTime THEN NoTime ELSE t - (t % TicksPerSecond)

Seconds(n) == n * TicksPerSecond

\* the description text of an event: task, planned and completed minutes, status
DescriptionOf(s) ==
    [task |-> s.task_name,
     minutes |-> s.duration_seconds \div 60,
     completed |-> s.completed_seconds \div 60,
     status |-> s.status]

NoDescription == [task |-> NoText, minutes |-> 0, completed |-> 0, status |-> "none"]


(***************************************************************************)
(* PomodoroDatabase.  A session row is a record                            *)
(*   [id, task_name, duration_seconds, start_time, end_time, status,       *)
(*    completed_seconds]                                                   *)
(* and a sync_mapping row a record [session_id, calendar_uid, calendar_url].*)
(* The last_synced column is written and never read; it is left out.       *)
(* The operators take the table and return the table (or the rows).        *)
(***************************************************************************)
SessionRow(id, task_name, duration_seconds, start_time, end_time, status, completed_seconds) ==
    [id |-> id, task_name |-> task_name, duration_seconds |-> duration_seconds,
     start_time |-> start_time, end_time |-> end_time, status |-> status,
     completed_seconds |-> completed_seconds]

MappingRow(session_id, calendar_uid, calendar_url) ==
    [session_id |-> session_id, calendar_uid |-> calendar_uid, calendar_url |-> calendar_url]

\* The sequences that list the set S once each, in an order allowed by Before,
\* the set of pairs <<a, b>> where a must come before b.
OrderingsBy(S, Before) ==
    {q \in [1..Cardinality(S) -> S] :
        /\ \A i, j \in 1..Cardinality(S) : i # j => q[i] # q[j]
        /\ \A i, j \in 1..Cardinality(S) : i < j => <<q[j], q[i]>> \notin Before}

\* SELECT * FROM sessions ORDER BY start_time DESC: rows of equal start_time
\* come in an order SQL leaves open.
get_all_sessions(S) ==
    OrderingsBy(S, {p \in S \X S : p[1].start_time > p[2].start_time})

\* a test that takes every mapped session for present
session_exists_unchecked(S, session_id) == TRUE

session_exists(S, session_id) == \E s \in S : s.id = session_id

\* INSERT INTO sessions: the AUTOINCREMENT id is next; returns the table.
add_session(S, next, task_name, duration_seconds, start_time, end_time, status, completed_seconds) ==
    S \cup {SessionRow(next, task_name, duration_seconds, start_time, end_time,
                       status, completed_seconds)}

\* an update that loses the row
update_session_dropping(S, session_id, task_name, start_time, end_time, duration_seconds) ==
    {s \in S : s.id # session_id}

\* an update that marks the session as completed in full
update_session_completing(S, session_id, task_name, start_time, end_time, duration_seconds) ==
    {IF s.id = session_id
        THEN [s EXCEPT !.task_name = task_name, !.start_time = start_time,
                       !.end_time = end_time, !.duration_seconds = duration_seconds,
                       !.status = "completed", !.completed_seconds = duration_seconds]
        ELSE s : s \in S}

\* update_session(session_id, task_name=, start_time=, end_time=, duration_seconds=),
\* the call pull makes: status and completed_seconds are not passed.
update_session(S, session_id, task_name, start_time, end_time, duration_seconds) ==
    {IF s.id = session_id
        THEN [s EXCEPT !.task_name = task_name, !.start_time = start_time,
                       !.end_time = end_time, !.duration_seconds = duration_seconds]
        ELSE s : s \in S}

delete_session(S, session_id) == {s \in S : s.id # session_id}

\* ABS(CAST((julianday(start_time) - julianday(?)) * 86400 AS INTEGER)) in
\* exact arithmetic: the whole seconds of the distance
SecondsApart(t1, t2) == Abs(TruncDiv(t1 - t2, TicksPerSecond))

\* The same expression as SQLite computes it: julianday() is a floating-point
\* number of days, so the product with 86400 is off by some 1e-5 seconds in
\* either direction, and CAST truncates.  A distance of n whole seconds
\* (n > 0) comes out as n or as n - 1, depending on the dates; equal times
\* give 0, and a distance with half a second comes out exact.
SecondsApartComputed(t1, t2) ==
    IF t1 # t2 /\ (t1 - t2) % TicksPerSecond = 0
        THEN {SecondsApart(t1, t2) - 1, SecondsApart(t1, t2)}
        ELSE {SecondsApart(t1, t2)}

\* a lookup without tolerance: the rows of the label that start at the time given
find_session_by_time_and_task_exact(S, start_time, task_name, tolerance_minutes) ==
    {s \in S : s.task_name = task_name /\ s.start_time = start_time}

\* find_session_by_time_and_task: the rows ORDER BY distance LIMIT 1 can return
\* (several when the smallest computed distance is shared or depends on the
\* dates); empty when none is in tolerance.
find_session_by_time_and_task(S, start_time, task_name, tolerance_minutes) ==
    LET named == {s \in S : s.task_name = task_name}
        tolerance_seconds == tolerance_minutes * 60
    IN  {s \in named :
            \E d \in SecondsApartComputed(s.start_time, start_time) :
                /\ d <= tolerance_seconds
                /\ \A o \in named \ {s} :
                        \E e \in SecondsApartComputed(o.start_time, start_time) :
                            e > tolerance_seconds \/ d <= e}

\* get_sync_mapping(session_id=, calendar_uid=): "if session_id" and
\* "elif calendar_uid" test truthiness, so 0/None and ''/None select every row.
get_sync_mapping(M, session_id, calendar_uid) ==
    IF session_id # NoId THEN {m \in M : m.session_id = session_id}
    ELSE IF calendar_uid # NoText THEN {m \in M : m.calendar_uid = calendar_uid}
    ELSE M

\* the rows of SELECT * FROM sync_mapping, in rowid (= session_id) order
MappingList(M) == CHOOSE q \in OrderingsBy(M, {p \in M \X M : p[1].session_id < p[2].session_id}) : TRUE

\* INSERT OR REPLACE: session_id is the PRIMARY KEY and calendar_uid is UNIQUE,
\* so the rows that collide on either column are removed first.
set_sync_mapping_keeping_uid(M, session_id, calendar_uid, calendar_url) ==
    {m \in M : m.session_id # session_id}
        \cup {MappingRow(session_id, calendar_uid, calendar_url)}

set_sync_mapping(M, session_id, calendar_uid, calendar_url) ==
    {m \in M : m.session_id # session_id /\ m.calendar_uid # calendar_uid}
        \cup {MappingRow(session_id, calendar_uid, calendar_url)}

\* a DELETE that only knows the session_id selector
delete_sync_mapping_by_session_only(M, session_id, calendar_uid) ==
    IF session_id # NoId THEN {m \in M : m.session_id # session_id}
    ELSE M

delete_sync_mapping(M, session_id, calendar_uid) ==
    IF session_id # NoId THEN {m \in M : m.session_id # session_id}
    ELSE IF calendar_uid # NoText THEN {m \in M : m.calendar_uid # calendar_uid}
    ELSE M

(***************************************************************************)
(* The remote calendar.  An event is a record                              *)
(*   [uid, summary, description, dtstart, dtend]                           *)
(* and the calendar holds at most one event per UID.                       *)
(***************************************************************************)
EventRow(uid, summary, description, dtstart, dtend) ==
    [uid |-> uid, summary |-> summary, description |-> description,
     dtstart |-> dtstart, dtend |-> dtend]

\* str(event.url) of the object that holds the event
UrlOf(uid) == <<"/">> \o uid

\* calendar.search(uid=...)
search_uid(R, uid) == {e \in R : e.uid = uid}

\* calendar.search(start=now-365d, end=now+365d): every time of the model lies
\* inside the window; the server returns the events in an order of its own.
search_range(R) == OrderingsBy(R, {})

\* event.delete() and calendar.client.delete(event_url)
remote_delete(R, uid) == {e \in R : e.uid # uid}

\* calendar.add_event(ical) and event.save(): the object stored under the UID
\* is replaced by the new content.
remote_put(R, ev) == {e \in R : e.uid # ev.uid} \cup {ev}

\* the VEVENT push writes for a session, under the UID given
EventOfSession(s, uid) ==
    LET start_time == s.start_time
        end_time == IF s.end_time # NoTime THEN s.end_time
                    ELSE start_time + Seconds(s.duration_seconds)
    IN  EventRow(uid, SummaryOf(s.task_name), DescriptionOf(s),
                 ToICalTime(start_time), ToICalTime(end_time))

(***************************************************************************)
(* State.                                                                  *)
(*   sessions, next_id, mappings : the two tables and the AUTOINCREMENT    *)
(*       counter of sessions;                                              *)
(*   remote   : the events of the remote calendar;                         *)
(*   config   : the CalDAV configuration holds a url;                      *)
(*   calendar : CalDAVSync.calendar is set (the engine is connected);      *)
(*   thr      : per thread, the position in push/pull/sync and its locals; *)
(*   done     : the latest call that returned, with what it returned;      *)
(*   env, calls, faults : how many outside changes, calls of the engine    *)
(*       and injected failures a behaviour has left;                       *)
(*   quiet    : the number of syncs that returned, free of failures and    *)
(*       of any outside change, since the last outside change;             *)
(*   watch    : the mapping row of the session deleted last, while nothing *)
(*       else but pushes happened since;                                   *)
(*   trip     : how far a round trip has come: a session created in empty  *)
(*       stores, pushed, its mapping row deleted, then a pull.             *)
(***************************************************************************)
VARIABLES sessions, next_id, mappings, remote, config, calendar,
          thr, done, env, calls, faults, quiet, watch, trip

stores == <<sessions, next_id, mappings, remote>>
vars == <<sessions, next_id, mappings, remote, config, calendar,
          thr, done, env, calls, faults, quiet, watch, trip>>

\* background_sync's thread, a request handler of the web server, and a
\* worker thread started by sync_to_calendar_async
Threads == {"bg", "req", "worker"}

\* PomodoroTimer, the command-line timer, calls sync_to_calendar_async too:
\* it has a position of its own, "idle" or "join" (waiting in thread.join).
Callers == Threads \cup {"timer"}

NoResult ==
    [success |-> FALSE, error |-> "not run", synced |-> 0, updated |-> 0, deleted |-> 0,
     imported |-> 0, skipped |-> 0, total_events |-> 0, raised |-> FALSE]

\* {'success': False, 'error': ...}
Failure(error) == [NoResult EXCEPT !.error = error]

\* an exception that reaches the caller instead of a result
except_reraise(e) == [NoResult EXCEPT !.error = e, !.raised = TRUE]

\* lines 732-733 and 888-889: `except Exception as e` around the whole body
\* of sync_to_calendar and of sync_from_calendar returns the failure.
push_except(e) == Failure(e)

pull_except(e) == Failure(e)

IdleThread ==
    [pc |-> "idle", op |-> "none",
     sessions |-> << >>, all_mappings |-> << >>, session_ids |-> {}, expected_uids |-> {},
     events |-> << >>, i |-> 1,
     synced |-> 0, updated |-> 0, deleted |-> 0, imported |-> 0, skipped |-> 0,
     result_to |-> NoResult, result_from |-> NoResult,
     processed |-> {}, seen |-> {}, faulted |-> {}, last |-> "none",
     connected |-> TRUE, touched |-> FALSE, retry |-> FALSE, hand |-> {}, fresh |-> {}]

NoDone ==
    [op |-> "none", success |-> FALSE,
     to_calendar |-> NoResult, from_calendar |-> NoResult,
     session_ids |-> {}, processed |-> {}, seen |-> {}, faulted |-> {},
     connected |-> TRUE, touched |-> FALSE, configured |-> TRUE]

NoWatch == [session_id |-> NoId, calendar_uid |-> NoText, pushed |-> FALSE]

NoTrip == [stage |-> "none", session_id |-> NoId, calendar_uid |-> NoText, count |-> 0]

\* the outcomes other than "ok" that the call of the thread has met
Faulted(me, outcome) == IF outcome = "ok" THEN me.faulted ELSE me.faulted \cup {outcome}

AllIdle == \A t \in Threads : thr[t].pc = "idle"

Running(t) == thr[t].pc # "idle"

Init ==
    /\ sessions = {}
    /\ next_id = 1
    /\ mappings = {}
    /\ remote = {}
    /\ config \in BOOLEAN
    /\ calendar = FALSE
    /\ thr = [t \in Callers |-> IdleThread]
    /\ done = NoDone
    /\ env = MaxEnv
    /\ calls = MaxCalls
    /\ faults = MaxFaults
    /\ quiet = 0
    /\ watch = NoWatch
    /\ trip = NoTrip

\* The same program when no call of the remote store or of the database
\* raises: more outside changes and calls of the engine are followed.
InitClean ==
    /\ sessions = {}
    /\ next_id = 1
    /\ mappings = {}
    /\ remote = {}
    /\ config \in BOOLEAN
    /\ calendar = FALSE
    /\ thr = [t \in Callers |-> IdleThread]
    /\ done = NoDone
    /\ env = CleanEnv
    /\ calls = CleanCalls
    /\ faults = 0
    /\ quiet = 0
    /\ watch = NoWatch
    /\ trip = NoTrip

\* An outside change: counted, and it ends a run of quiet syncs.
Outside ==
    /\ env > 0
    /\ env' = env - 1
    /\ quiet' = 0

\* n injected failures, out of those the behaviour has left
Fault(n) ==
    /\ faults >= n
    /\ faults' = faults - n

Count(b) == IF b THEN 0 ELSE 1

\* threading.Thread(target=sync_worker).start(): the worker reads the
\* configuration and, with a url, calls sync_to_calendar().
SpawnWorker(t) ==
    IF config
        THEN /\ thr[t].pc = "idle"
             /\ calls > 0
             /\ calls' = calls - 1
             /\ thr' = [thr EXCEPT ![t] = [IdleThread EXCEPT !.pc = "push_begin", !.op = "push"]]
        ELSE UNCHANGED <<thr, calls>>

(***************************************************************************)
(* CalDAVSync.connect, as sync_to_calendar and sync_from_calendar call it  *)
(* when self.calendar is not set: without a url it fails with 'No CalDAV   *)
(* URL configured'; with one, the server decides (reachable).              *)
(***************************************************************************)
connect_missing_url_check(reachable) ==
    IF ~reachable THEN [success |-> FALSE, error |-> "CalDAV connection error"]
    ELSE [success |-> TRUE, error |-> ""]

connect(reachable) ==
    IF ~config THEN [success |-> FALSE, error |-> "No CalDAV URL configured"]
    ELSE IF ~reachable THEN [success |-> FALSE, error |-> "CalDAV connection error"]
    ELSE [success |-> TRUE, error |-> ""]

\* sync(): 'success' of the combined result
sync_success_either(result_to, result_from) == result_to.success \/ result_from.success

sync_success(result_to, result_from) == result_to.success /\ result_from.success

\* a loop that ends with the first sync that fails
background_sync_until_failure(success) == IF success THEN "idle" ELSE "dead"

\* background_sync, lines 1620-1632: whatever sync() returned, and also when
\* it raised, the loop goes back to time.sleep.
background_sync_after(success) == "idle"

\* a worker whose failure is not caught: the failure ends more than the worker
sync_worker_unguarded(success) == IF success THEN "idle" ELSE "dead"

\* sync_worker, lines 960-984, and sync_to_calendar_async of the server, lines
\* 1374-1384: a failed result and an exception are printed, and the thread ends.
sync_worker_after(success) == "idle"

\* How a call ends: the thread goes idle and `done` records what it returned.
\* The thread of background_sync remembers that its last round failed.
Return(t, me, result_to, result_from, success) ==
    /\ thr' = [thr EXCEPT ![t] =
                IF t = "bg"
                    THEN [IdleThread EXCEPT !.pc = background_sync_after(success),
                                            !.retry = ~success]
                    ELSE IF t = "worker"
                        THEN [IdleThread EXCEPT !.pc = sync_worker_after(success)]
                        ELSE IdleThread]
    /\ done' = [op |-> me.op, success |-> success,
                to_calendar |-> result_to, from_calendar |-> result_from,
                session_ids |-> me.session_ids, processed |-> me.processed,
                seen |-> me.seen,
                faulted |-> me.faulted, connected |-> me.connected,
                touched |-> me.touched, configured |-> config]
    /\ quiet' = IF me.op = "sync" /\ me.faulted = {} /\ success
                    THEN Min2(quiet + 1, 2)
                    ELSE 0

\* sync_to_calendar returns result: alone, that ends the call; inside sync(),
\* sync_from_calendar is called next.
PushExit(t, me, result) ==
    /\ watch' = IF watch.session_id # NoId /\ result.success /\ me.faulted = {}
                    THEN [watch EXCEPT !.pushed = TRUE]
                    ELSE NoWatch
    /\ trip' = LET m == get_sync_mapping(mappings, trip.session_id, NoText)
               IN  IF /\ trip.stage = "created"
                      /\ me.op = "push" /\ result.success /\ me.faulted = {}
                    THEN [trip EXCEPT !.stage = "pushed",
                                      !.calendar_uid =
                                            IF m = {} THEN NoText
                                            ELSE (CHOOSE x \in m : TRUE).calendar_uid]
                    ELSE NoTrip
    /\ IF me.op = "sync"
        THEN /\ thr' = [thr EXCEPT ![t] =
                    [me EXCEPT !.pc = "pull_begin", !.result_to = result,
                               !.sessions = << >>, !.all_mappings = << >>,
                               !.expected_uids = {}, !.events = << >>, !.i = 1,
                               !.synced = 0, !.updated = 0, !.deleted = 0,
                               !.last = "none"]]
             /\ UNCHANGED <<done, quiet>>
        ELSE Return(t, me, result, NoResult, result.success)

\* sync_from_calendar returns result: alone, that ends the call; inside sync()
\* the combined result is returned.
PullExit(t, me, result) ==
    /\ trip' = IF trip.stage = "unlinked" /\ me.op = "pull" /\ result.success /\ me.faulted = {}
                    THEN [trip EXCEPT !.stage = "pulled"]
                    ELSE NoTrip
    /\ IF me.op = "sync"
        THEN Return(t, me, me.result_to, result, sync_success(me.result_to, result))
        ELSE Return(t, me, NoResult, result, result.success)

(***************************************************************************)
(* sync_to_calendar (push), lines 455-482: connect when needed, read the   *)
(* sessions and the mappings, build session_ids and expected_uids.         *)
(***************************************************************************)
ExpectedUids(sessionSeq, mappingSeq) ==
    LET ids == {sessionSeq[k].id : k \in 1..Len(sessionSeq)}
    IN  {SessionUid(id) : id \in ids}
            \cup {mappingSeq[k].calendar_uid :
                    k \in {j \in 1..Len(mappingSeq) : mappingSeq[j].session_id \in ids}}

\* the least index from `from` on of a mapping whose session is gone, else 0
NextOrphan(me, from) ==
    LET idx == {k \in from..Len(me.all_mappings) :
                    me.all_mappings[k].session_id \notin me.session_ids}
    IN  IF idx = {} THEN 0 ELSE CHOOSE k \in idx : \A o \in idx : k <= o

AfterOrphans(me, from) ==
    IF NextOrphan(me, from) # 0
        THEN [me EXCEPT !.pc = "push_orphans", !.i = NextOrphan(me, from)]
        ELSE [me EXCEPT !.pc = "push_scan", !.i = 1]

PushBegin(t) ==
    LET me == thr[t] IN
    /\ me.pc = "push_begin"
    /\ \E reachable \in BOOLEAN, dbOk \in BOOLEAN, order \in get_all_sessions(sessions) :
        LET c == IF calendar THEN [success |-> TRUE, error |-> ""] ELSE connect(reachable)
            me1 == [me EXCEPT !.connected = c.success,
                              !.faulted = Faulted(me, IF ~c.success THEN "connect_fails"
                                                      ELSE IF ~dbOk THEN "db_fails" ELSE "ok")]
        IN  /\ (calendar \/ ~config) => reachable
            /\ ~c.success => dbOk
            /\ Fault(Count(reachable) + Count(dbOk))
            /\ calendar' = (calendar \/ c.success)
            /\ IF ~c.success
                THEN PushExit(t, me1, Failure(c.error))
               ELSE IF ~dbOk
                THEN PushExit(t, [me1 EXCEPT !.touched = TRUE], push_except("database error"))
               ELSE /\ thr' = [thr EXCEPT ![t] = AfterOrphans(
                            [me1 EXCEPT !.touched = TRUE,
                                        !.sessions = order,
                                        !.all_mappings = MappingList(mappings),
                                        !.session_ids = {order[k].id : k \in 1..Len(order)},
                                        !.expected_uids = ExpectedUids(order, MappingList(mappings))],
                            1)]
                    /\ UNCHANGED <<done, quiet, watch, trip>>
    /\ UNCHANGED <<stores, config, env, calls>>

(***************************************************************************)
(* Outcomes of the remote and database calls of one loop iteration.  Each  *)
(* names the calls that raise; "ok" is the iteration in which none does.   *)
(***************************************************************************)
OrphanOutcomes ==
    {"ok", "orphan_search_fails", "orphan_delete_fails", "orphan_deletes_fail",
     "orphan_db_fails"}

SweepOutcomes == {"ok", "delete_fails", "deletes_fail", "db_fails"}

SessionOutcomes ==
    {"ok", "get_fails", "search_fails", "search_add_fail", "save_fails",
     "save_delete_fail", "save_add_fail", "save_delete_add_fail",
     "add_fails_once", "add_fails", "set_fails"}

\* the number of calls that raise in an outcome
Cost(outcome) ==
    CASE outcome = "ok" -> 0
      [] outcome \in {"deletes_fail", "orphan_deletes_fail", "search_add_fail",
                      "save_delete_fail",
                      "save_add_fail", "add_fails"} -> 2
      [] outcome = "save_delete_add_fail" -> 3
      [] OTHER -> 1


\* a cleanup that is skipped when the search or the deletion raised
orphan_cleanup_unless_error(M, calendar_uid, outcome) ==
    IF outcome = "ok" THEN delete_sync_mapping(M, NoId, calendar_uid) ELSE M

\* lines 519 and 523: the mapping row of the orphan is deleted after the
\* deletion of its event, and in the handler when that raised
orphan_cleanup(M, calendar_uid, outcome) == delete_sync_mapping(M, NoId, calendar_uid)

(***************************************************************************)
(* Lines 485-523: one mapping whose session is gone.  search(uid); when    *)
(* the event is there, event.delete(), and on failure a delete by URL;     *)
(* then delete_sync_mapping(calendar_uid), also when the search raised.    *)
(* A database error in the handler of line 520 leaves the loop.            *)
(***************************************************************************)
PushOrphan(t) ==
    LET me == thr[t]
        uid == me.all_mappings[me.i].calendar_uid
        found == search_uid(remote, uid) # {}
    IN
    /\ me.pc = "push_orphans"
    /\ \E outcome \in OrphanOutcomes :
        LET removed == found /\ outcome \in {"ok", "orphan_delete_fails", "orphan_db_fails"}
            me1 == [me EXCEPT !.faulted = Faulted(me, outcome),
                              !.deleted = me.deleted + (IF removed THEN 1 ELSE 0)]
        IN  /\ outcome \in {"orphan_delete_fails", "orphan_deletes_fail"} => found
            /\ Fault(Cost(outcome))
            /\ remote' = IF removed THEN remote_delete(remote, uid) ELSE remote
            /\ IF outcome = "orphan_db_fails"
                THEN /\ mappings' = mappings
                     /\ PushExit(t, me1, push_except("database error"))
                ELSE /\ mappings' = orphan_cleanup(mappings, uid, outcome)
                     /\ thr' = [thr EXCEPT ![t] = AfterOrphans(me1, me.i + 1)]
                     /\ UNCHANGED <<done, quiet, watch, trip>>
    /\ UNCHANGED <<sessions, next_id, config, calendar, env, calls>>

(***************************************************************************)
(* Lines 527-588: the sweep over every event of the date window.           *)
(***************************************************************************)
\* a test that knows our events by their UID only
is_pomodoro_by_uid(ev) == IsPomodoroUid(ev.uid)

\* line 545: the event is one of ours by its UID or by its summary
is_pomodoro(ev) == IsPomodoroUid(ev.uid) \/ HasMarker(ev.summary)

\* the least index from `from` on of an event of ours that is not expected
NextSweep(me, from) ==
    LET idx == {k \in from..Len(me.events) :
                    /\ is_pomodoro(me.events[k])
                    /\ me.events[k].uid \notin me.expected_uids}
    IN  IF idx = {} THEN 0 ELSE CHOOSE k \in idx : \A o \in idx : k <= o

AfterSweep(me, from) ==
    IF NextSweep(me, from) # 0
        THEN [me EXCEPT !.pc = "push_sweep", !.i = NextSweep(me, from)]
        ELSE [me EXCEPT !.pc = "push_sessions", !.i = 1]

\* lines 529-536; a search that raises skips the sweep (line 587)
PushScan(t) ==
    LET me == thr[t] IN
    /\ me.pc = "push_scan"
    /\ \E searchOk \in BOOLEAN, order \in search_range(remote) :
        /\ ~searchOk => order = CHOOSE o \in search_range(remote) : TRUE
        /\ Fault(Count(searchOk))
        /\ thr' = [thr EXCEPT ![t] =
                IF searchOk THEN AfterSweep([me EXCEPT !.events = order], 1)
                ELSE [me EXCEPT !.pc = "push_sessions", !.i = 1,
                                !.faulted = Faulted(me, "range_fails")]]
    /\ UNCHANGED <<stores, config, calendar, done, env, calls, quiet, watch, trip>>

\* lines 548-583: an event of ours that is not expected is deleted unless its
\* UID is mapped to a session of the list read at the start.
PushSweep(t) ==
    LET me == thr[t]
        uid == me.events[me.i].uid
        mapping == get_sync_mapping(mappings, NoId, uid)
        first == CHOOSE m \in mapping : \A o \in mapping : m.session_id <= o.session_id
        stale == IF mapping = {} THEN TRUE ELSE first.session_id \notin me.session_ids
        present == search_uid(remote, uid) # {}
    IN
    /\ me.pc = "push_sweep"
    /\ \E outcome \in SweepOutcomes :
        LET removed == stale /\ present /\ outcome \in {"ok", "delete_fails"}
        IN  /\ outcome \in {"delete_fails", "deletes_fail"} => stale /\ present
            /\ Fault(Cost(outcome))
            /\ remote' = IF removed THEN remote_delete(remote, uid) ELSE remote
            /\ mappings' = IF stale /\ mapping # {} /\ outcome # "db_fails"
                            THEN delete_sync_mapping(mappings, NoId, uid)
                            ELSE mappings
            /\ thr' = [thr EXCEPT ![t] = AfterSweep(
                    [me EXCEPT !.faulted = Faulted(me, outcome),
                               !.deleted = me.deleted + (IF removed THEN 1 ELSE 0)],
                    me.i + 1)]
    /\ UNCHANGED <<sessions, next_id, config, calendar, done, env, calls, quiet, watch, trip>>

(***************************************************************************)
(* Lines 591-716: one session of the list read at the start.  The result   *)
(* is the new remote store, the new mapping table, the counters, and       *)
(* whether an exception left the loop (caught at line 732).                *)
(*   mapped, event found : update in place and save, updated += 1; when    *)
(*       that raises, event.delete() (its failure ignored) and add_event   *)
(*       under the mapped UID, updated += 1; when add_event raises too,    *)
(*       nothing more is done for the session.  Assigning dtstart/dtend    *)
(*       raises when the event lacks the property.                         *)
(*   mapped, event not found : add_event under the mapped UID,             *)
(*       synced += 1; when it raises, the handler of line 677 calls        *)
(*       add_event once more, outside any try.                             *)
(*   mapped, search raises : the same handler.                             *)
(*   not mapped : add_event under the session's UID, set_sync_mapping,     *)
(*       synced += 1, outside any try.                                     *)
(***************************************************************************)

\* a handler that lets the failed recreation leave the loop
recreate_error_raised(r) == [r EXCEPT !.abort = TRUE]

\* lines 653-656: the error of the recreation is printed and `mapping = []`
\* changes a local only; the loop goes on with what has been done so far
recreate_error(r) == r

\* an event recreated under the UID derived from the session id
recreate_uid_derived(calendar_uid, uid) == uid

\* line 666: event.add('uid', calendar_uid), the UID of the stored mapping
recreate_uid(calendar_uid, uid) == calendar_uid

\* one session of the list when a failed save is left to the handler of line 732
SessionStep_save_error_raised(R, M, s, outcome) ==
    LET mapping == get_sync_mapping(M, s.id, NoText)
        uid == SessionUid(s.id)
        calendar_uid == (CHOOSE m \in mapping : TRUE).calendar_uid
        events == search_uid(R, calendar_uid)
        old == CHOOSE e \in events : TRUE
        ev == EventOfSession(s, calendar_uid)
        Same == [remote |-> R, mappings |-> M, synced |-> 0, updated |-> 0, abort |-> FALSE]
    IN  IF outcome = "get_fails" THEN [Same EXCEPT !.abort = TRUE]
        ELSE IF mapping # {} THEN
            IF outcome = "search_fails"
                THEN [Same EXCEPT !.remote = remote_put(R, ev), !.synced = 1]
            ELSE IF outcome = "search_add_fail"
                THEN [Same EXCEPT !.abort = TRUE]
            ELSE IF events # {} THEN
                IF outcome = "ok" /\ old.dtstart # NoTime /\ old.dtend # NoTime
                    THEN [Same EXCEPT !.remote = remote_put(R, ev), !.updated = 1]
                ELSE IF outcome = "ok"
                    THEN [Same EXCEPT !.remote = remote_put(R, ev), !.updated = 1]
                ELSE IF outcome \in {"save_fails", "save_delete_fail"}
                    THEN [Same EXCEPT !.abort = TRUE]
                ELSE IF outcome = "save_add_fail"
                    THEN [Same EXCEPT !.remote = remote_delete(R, calendar_uid)]
                ELSE Same
            ELSE
                IF outcome \in {"ok", "add_fails_once"}
                    THEN [Same EXCEPT !.remote = remote_put(R, ev), !.synced = 1]
                ELSE [Same EXCEPT !.abort = TRUE]
        ELSE
            IF outcome = "ok"
                THEN [remote |-> remote_put(R, EventOfSession(s, uid)),
                      mappings |-> set_sync_mapping(M, s.id, uid, NoText),
                      synced |-> 1, updated |-> 0, abort |-> FALSE]
            ELSE IF outcome = "set_fails"
                THEN [Same EXCEPT !.remote = remote_put(R, EventOfSession(s, uid)),
                                  !.abort = TRUE]
            ELSE [Same EXCEPT !.abort = TRUE]

SessionStep(R, M, s, outcome) ==
    LET mapping == get_sync_mapping(M, s.id, NoText)
        uid == SessionUid(s.id)
        calendar_uid == (CHOOSE m \in mapping : TRUE).calendar_uid
        events == search_uid(R, calendar_uid)
        old == CHOOSE e \in events : TRUE
        ev == EventOfSession(s, calendar_uid)
        Same == [remote |-> R, mappings |-> M, synced |-> 0, updated |-> 0, abort |-> FALSE]
    IN  IF outcome = "get_fails" THEN [Same EXCEPT !.abort = TRUE]
        ELSE IF mapping # {} THEN
            IF outcome = "search_fails"
                THEN [Same EXCEPT !.remote = remote_put(R, ev), !.synced = 1]
            ELSE IF outcome = "search_add_fail"
                THEN [Same EXCEPT !.abort = TRUE]
            ELSE IF events # {} THEN
                IF outcome = "ok" /\ old.dtstart # NoTime /\ old.dtend # NoTime
                    THEN [Same EXCEPT !.remote = remote_put(R, ev), !.updated = 1]
                ELSE IF outcome \in {"ok", "save_fails", "save_delete_fail"}
                    THEN [Same EXCEPT !.remote = remote_put(R, ev), !.updated = 1]
                ELSE IF outcome = "save_add_fail"
                    THEN recreate_error([Same EXCEPT !.remote = remote_delete(R, calendar_uid)])
                ELSE recreate_error(Same)
            ELSE
                IF outcome \in {"ok", "add_fails_once"}
                    THEN [Same EXCEPT !.remote = remote_put(R, EventOfSession(s,
                                                    recreate_uid(calendar_uid, uid))),
                                      !.synced = 1]
                ELSE [Same EXCEPT !.abort = TRUE]
        ELSE
            IF outcome = "ok"
                THEN [remote |-> remote_put(R, EventOfSession(s, uid)),
                      mappings |-> set_sync_mapping(M, s.id, uid, NoText),
                      synced |-> 1, updated |-> 0, abort |-> FALSE]
            ELSE IF outcome = "set_fails"
                THEN [Same EXCEPT !.remote = remote_put(R, EventOfSession(s, uid)),
                                  !.abort = TRUE]
            ELSE [Same EXCEPT !.abort = TRUE]

\* the outcomes that can happen for the session, given what the stores hold
SessionOutcomeFits(R, M, s, outcome) ==
    LET mapping == get_sync_mapping(M, s.id, NoText)
        events == search_uid(R, (CHOOSE m \in mapping : TRUE).calendar_uid)
    IN  \/ outcome \in {"ok", "get_fails"}
        \/ /\ mapping # {}
           /\ outcome \in {"search_fails", "search_add_fail"}
        \/ /\ mapping # {}
           /\ events # {}
           /\ outcome \in {"save_fails", "save_delete_fail", "save_add_fail",
                           "save_delete_add_fail"}
        \/ /\ mapping # {}
           /\ events = {}
           /\ outcome \in {"add_fails_once", "add_fails"}
        \/ /\ mapping = {}
           /\ outcome \in {"add_fails", "set_fails"}

\* a push that drops the row of the session it has handled
pushed_table_without(S, s) == delete_session(S, s.id)

\* the sessions table after one pass of the loop: lines 591-716 read the rows
\* get_all_sessions() gave and write none
pushed_table(S, s) == S

PushSession(t) ==
    LET me == thr[t]
        s == me.sessions[me.i]
    IN
    /\ me.pc = "push_sessions"
    /\ me.i <= Len(me.sessions)
    /\ \E outcome \in SessionOutcomes :
        LET r == SessionStep(remote, mappings, s, outcome)
            me1 == [me EXCEPT !.faulted = Faulted(me, outcome),
                              !.last = outcome,
                              !.synced = me.synced + r.synced,
                              !.updated = me.updated + r.updated,
                              !.processed = me.processed \cup {s.id},
                              !.i = me.i + 1]
        IN  /\ SessionOutcomeFits(remote, mappings, s, outcome)
            /\ Fault(IF outcome = "add_fails" /\ get_sync_mapping(mappings, s.id, NoText) = {}
                        THEN 1 ELSE Cost(outcome))
            /\ remote' = r.remote
            /\ mappings' = r.mappings
            /\ IF r.abort
                THEN PushExit(t, me1, push_except("exception"))
                ELSE /\ thr' = [thr EXCEPT ![t] = me1]
                     /\ UNCHANGED <<done, quiet, watch, trip>>
    /\ sessions' = pushed_table(sessions, s)
    /\ UNCHANGED <<next_id, config, calendar, env, calls>>

\* lines 718-731: the loop is over
PushResult(me) ==
    [NoResult EXCEPT !.success = TRUE, !.error = "",
                     !.synced = me.synced, !.updated = me.updated, !.deleted = me.deleted]

PushReturn(t) ==
    LET me == thr[t] IN
    /\ me.pc = "push_sessions"
    /\ me.i > Len(me.sessions)
    /\ PushExit(t, me, PushResult(me))
    /\ UNCHANGED <<stores, config, calendar, env, calls, faults>>

(***************************************************************************)
(* sync_from_calendar (pull), lines 735-889.                               *)
(***************************************************************************)
\* the UIDs of the events that no row of sync_mapping holds
Unmapped(R, M) == {e.uid : e \in {x \in R : get_sync_mapping(M, NoId, x.uid) = {}}}

PullBegin(t) ==
    LET me == thr[t] IN
    /\ me.pc = "pull_begin"
    /\ \E reachable \in BOOLEAN, searchOk \in BOOLEAN, order \in search_range(remote) :
        LET c == IF calendar THEN [success |-> TRUE, error |-> ""] ELSE connect(reachable)
            me1 == [me EXCEPT !.faulted = Faulted(me, IF ~c.success THEN "connect_fails"
                                                      ELSE IF ~searchOk THEN "range_fails"
                                                      ELSE "ok")]
        IN  /\ (calendar \/ ~config) => reachable
            /\ ~(c.success /\ searchOk) => order = CHOOSE o \in search_range(remote) : TRUE
            /\ ~c.success => searchOk
            /\ Fault(Count(reachable) + Count(searchOk))
            /\ calendar' = (calendar \/ c.success)
            /\ IF ~c.success
                THEN PullExit(t, me1, Failure(c.error))
               ELSE IF ~searchOk
                THEN PullExit(t, [me1 EXCEPT !.touched = TRUE], pull_except("exception"))
               ELSE /\ thr' = [thr EXCEPT ![t] =
                            [me1 EXCEPT !.pc = "pull_events", !.touched = TRUE,
                                        !.events = order, !.i = 1,
                                        !.fresh = Unmapped(remote, mappings)]]
                    /\ trip' = IF trip.stage = "unlinked" /\ me.op = "pull"
                                    THEN trip ELSE NoTrip
                    /\ UNCHANGED <<done, quiet>>
    /\ watch' = NoWatch
    /\ UNCHANGED <<stores, config, env, calls>>

\* a test that takes every UID for one of ours
is_pomodoro_event_any(uid) == TRUE

\* line 770
is_pomodoro_event(uid) == IsPomodoroUid(uid)

\* lines 762-870 for one event; `pick` is the row the fuzzy lookup returned
\* (NoId when it returned none).
PullStep(S, next, M, ev, pick) ==
    LET uid == ev.uid
        summary == ev.summary
        task_name == TaskNameOf(summary)
        start_time == ev.dtstart
        end_time == IF ev.dtend # NoTime THEN ev.dtend
                    ELSE start_time + Seconds(DefaultMinutes * 60)
        duration_seconds == TruncDiv(end_time - start_time, TicksPerSecond)
        mapping == get_sync_mapping(M, NoId, uid)
        session_id == (CHOOSE m \in mapping : TRUE).session_id
        Same == [sessions |-> S, next_id |-> next, mappings |-> M,
                 imported |-> 0, updated |-> 0, skipped |-> 0]
        Import(M1) ==
            [sessions |-> add_session(S, next, task_name, duration_seconds, start_time,
                                      end_time, "completed", duration_seconds),
             next_id |-> next + 1,
             mappings |-> set_sync_mapping(M1, next, uid, UrlOf(uid)),
             imported |-> 1, updated |-> 0, skipped |-> 0]
    IN  IF ~is_pomodoro_event(uid) /\ ~HasMarker(summary) THEN [Same EXCEPT !.skipped = 1]
        ELSE IF ev.dtstart = NoTime THEN Same
        ELSE IF mapping # {} THEN
            IF session_exists(S, session_id)
                THEN [Same EXCEPT !.sessions = update_session(S, session_id, task_name,
                                        start_time, end_time, duration_seconds),
                                  !.updated = 1]
                ELSE Import(delete_sync_mapping(M, NoId, uid))
        ELSE IF pick # NoId THEN
            IF get_sync_mapping(M, pick, NoText) = {}
                THEN [Same EXCEPT !.sessions = update_session(S, pick, task_name,
                                        start_time, end_time, duration_seconds),
                                  !.mappings = set_sync_mapping(M, pick, uid, UrlOf(uid)),
                                  !.updated = 1]
                ELSE [Same EXCEPT !.skipped = 1]
        ELSE Import(M)

\* a lookup that never finds a session
Lookup_nothing(S, ev) == {}

\* the ids find_session_by_time_and_task can return for the event
Lookup(S, ev) ==
    IF ev.dtstart = NoTime THEN {}
    ELSE {s.id : s \in find_session_by_time_and_task(S, ev.dtstart, TaskNameOf(ev.summary),
                                                     ToleranceMinutes)}

\* lines 871-874: the handler around one event counts it as skipped and the
\* loop continues with the next.  A variant that leaves the loop comes first.
item_except_break(me) ==
    [me EXCEPT !.i = Len(me.events) + 1,
               !.seen = me.seen \cup {me.i},
               !.faulted = Faulted(me, "item_raises"),
               !.skipped = me.skipped + 1]

item_except(me) ==
    [me EXCEPT !.i = me.i + 1,
               !.seen = me.seen \cup {me.i},
               !.faulted = Faulted(me, "item_raises"),
               !.skipped = me.skipped + 1]

\* one pass of the loop over the events; ids above cap + 1 are not handed out
PullEventUpTo(t, cap) ==
    LET me == thr[t]
        ev == me.events[me.i]
        found == Lookup(sessions, ev)
    IN
    /\ me.pc = "pull_events"
    /\ me.i <= Len(me.events)
    /\ \E raises \in BOOLEAN, pick \in (IF found = {} THEN {NoId} ELSE found) :
        LET r == PullStep(sessions, next_id, mappings, ev, pick)
        IN  /\ raises => pick = (IF found = {} THEN NoId
                                 ELSE CHOOSE p \in found : \A o \in found : p <= o)
            /\ Fault(Count(~raises))
            /\ ~raises => r.next_id <= cap + 1
            /\ sessions' = IF raises THEN sessions ELSE r.sessions
            /\ next_id' = IF raises THEN next_id ELSE r.next_id
            /\ mappings' = IF raises THEN mappings ELSE r.mappings
            /\ thr' = [thr EXCEPT ![t] =
                    IF raises THEN item_except(me)
                    ELSE [me EXCEPT !.i = me.i + 1,
                                    !.seen = me.seen \cup {me.i},
                                    !.imported = me.imported + r.imported,
                                    !.updated = me.updated + r.updated,
                                    !.skipped = me.skipped + r.skipped]]
    /\ UNCHANGED <<remote, config, calendar, done, env, calls, quiet, watch, trip>>

PullEvent(t) == PullEventUpTo(t, MaxId)

\* lines 876-887
PullResult(me) ==
    [NoResult EXCEPT !.success = TRUE, !.error = "",
                     !.imported = me.imported, !.updated = me.updated,
                     !.skipped = me.skipped, !.total_events = Len(me.events)]

PullReturn(t) ==
    LET me == thr[t] IN
    /\ me.pc = "pull_events"
    /\ me.i > Len(me.events)
    /\ PullExit(t, me, PullResult(me))
    /\ UNCHANGED <<stores, config, calendar, env, calls, faults, watch>>

(***************************************************************************)
(* The callers of the engine in start_stats_server, and the outside world. *)
(***************************************************************************)
\* The UIDs of the events somebody made by hand that a sync would import: the
\* summary carries the marker, the UID is not one of ours, the event has a
\* start, no mapping holds the UID and the fuzzy lookup finds no session.
HandMade(R, S, M) ==
    {e.uid : e \in {x \in R : /\ HasMarker(x.summary)
                              /\ ~IsPomodoroUid(x.uid)
                              /\ x.dtstart # NoTime
                              /\ get_sync_mapping(M, NoId, x.uid) = {}
                              /\ Lookup(S, x) = {}}}

\* A call starts; a sync remembers the hand-made events it starts with.
Start(t, op) ==
    /\ calls > 0
    /\ calls' = calls - 1
    /\ thr' = [thr EXCEPT ![t] =
            [IdleThread EXCEPT !.op = op, !.retry = thr[t].retry,
                               !.hand = IF op = "sync"
                                            THEN HandMade(remote, sessions, mappings)
                                            ELSE {},
                               !.pc = IF op = "pull" THEN "pull_begin" ELSE "push_begin"]]

\* background_sync, lines 1619-1633: after the sleep, sync() when a url is configured
BackgroundSync ==
    /\ thr["bg"].pc = "idle"
    /\ config
    /\ Start("bg", "sync")
    /\ UNCHANGED <<stores, config, calendar, done, env, faults, quiet, watch, trip>>

\* api_caldav_sync, api_caldav_sync_to, api_caldav_sync_from, lines 1588-1613
ApiCaldavSync(op) ==
    /\ thr["req"].pc = "idle"
    /\ Start("req", op)
    /\ UNCHANGED <<stores, config, calendar, done, env, faults, quiet, watch, trip>>

\* api_add_session, lines 1386-1404
ApiAddSession(task_name, duration_seconds, start_time, end_time, status, completed_seconds) ==
    /\ next_id <= MaxId
    /\ Outside
    /\ sessions' = add_session(sessions, next_id, task_name, duration_seconds,
                               start_time, end_time, status, completed_seconds)
    /\ next_id' = next_id + 1
    /\ SpawnWorker("worker")
    /\ watch' = NoWatch
    /\ trip' = IF sessions = {} /\ mappings = {} /\ remote = {}
                    THEN [NoTrip EXCEPT !.stage = "created", !.session_id = next_id]
                    ELSE NoTrip
    /\ UNCHANGED <<mappings, remote, config, calendar, done, faults>>

\* api_update_session, lines 1406-1429, with task_name and start_time in the request
ApiUpdateSession(session_id, task_name, start_time) ==
    /\ session_exists(sessions, session_id)
    /\ Outside
    /\ sessions' = {IF s.id = session_id
                        THEN [s EXCEPT !.task_name = task_name, !.start_time = start_time]
                        ELSE s : s \in sessions}
    /\ sessions' # sessions
    /\ SpawnWorker("worker")
    /\ watch' = NoWatch
    /\ trip' = NoTrip
    /\ UNCHANGED <<next_id, mappings, remote, config, calendar, done, faults>>

\* api_delete_session, lines 1431-1442: the mapping, then the session
ApiDeleteSession(session_id) ==
    /\ session_exists(sessions, session_id)
    /\ Outside
    /\ mappings' = delete_sync_mapping(mappings, session_id, NoText)
    /\ sessions' = delete_session(sessions, session_id)
    /\ SpawnWorker("worker")
    /\ watch' = NoWatch
    /\ trip' = NoTrip
    /\ UNCHANGED <<next_id, remote, config, calendar, done, faults>>

\* PomodoroDatabase.delete_session alone: foreign keys are not enforced (no
\* PRAGMA foreign_keys), so the mapping row of the session stays.
DeleteSessionRow(session_id) ==
    /\ session_exists(sessions, session_id)
    /\ Outside
    /\ sessions' = delete_session(sessions, session_id)
    /\ watch' = LET m == get_sync_mapping(mappings, session_id, NoText)
                IN  IF m = {} THEN NoWatch
                    ELSE [session_id |-> session_id,
                          calendar_uid |-> (CHOOSE x \in m : TRUE).calendar_uid,
                          pushed |-> FALSE]
    /\ trip' = NoTrip
    /\ UNCHANGED <<next_id, mappings, remote, config, calendar, thr, done, calls, faults>>

\* PomodoroDatabase.delete_sync_mapping(session_id=...) alone: the linkage is lost
DeleteMappingRow(session_id) ==
    /\ get_sync_mapping(mappings, session_id, NoText) # {}
    /\ Outside
    /\ mappings' = delete_sync_mapping(mappings, session_id, NoText)
    /\ watch' = NoWatch
    /\ trip' = IF trip.stage = "pushed" /\ trip.session_id = session_id
                    THEN [trip EXCEPT !.stage = "unlinked", !.count = Cardinality(sessions)]
                    ELSE NoTrip
    /\ UNCHANGED <<sessions, next_id, remote, config, calendar, thr, done, calls, faults>>

\* somebody else writes an event to the calendar, or removes one
RemotePut(ev) ==
    /\ Outside
    /\ remote' = remote_put(remote, ev)
    /\ remote' # remote
    /\ watch' = NoWatch
    /\ trip' = NoTrip
    /\ UNCHANGED <<sessions, next_id, mappings, config, calendar, thr, done, calls, faults>>

RemoteDelete(uid) ==
    /\ search_uid(remote, uid) # {}
    /\ Outside
    /\ remote' = remote_delete(remote, uid)
    /\ watch' = NoWatch
    /\ trip' = NoTrip
    /\ UNCHANGED <<sessions, next_id, mappings, config, calendar, thr, done, calls, faults>>

\* api_set_caldav_config, lines 1558-1586: empty fields clear the configuration
\* and the connection; otherwise configure() stores it and connects.
ApiSetCaldavConfig(url, reachable) ==
    /\ Outside
    /\ config' = url
    /\ calendar' = IF ~url THEN FALSE
                   ELSE IF reachable THEN TRUE ELSE calendar
    /\ <<config', calendar'>> # <<config, calendar>>
    /\ watch' = NoWatch
    /\ trip' = NoTrip
    /\ UNCHANGED <<stores, thr, done, calls, faults>>

(***************************************************************************)
(* The inputs of the specification.                                        *)
(***************************************************************************)
T0 == Seconds(0)
T1 == Seconds(200) + 1
Pomodoro == DefaultMinutes * 60

TaskNames == {<<"a">>, <<" ", "a">>}
StartTimes == {T0, T1}

HandUid == <<"hand-1">>
RemoteUids == {SessionUid(id) : id \in 1..MaxId} \cup {HandUid}
HandEvents ==
    {EventRow(uid, summary, NoDescription, T0, dtend) :
        uid \in RemoteUids, summary \in {<<TOMATO, " ", "a">>, <<"a">>},
        dtend \in {T0 + Seconds(Pomodoro)}}
    \cup {EventRow(HandUid, <<TOMATO, " ", "a">>, NoDescription, NoTime, NoTime)}

EngineStep(t) ==
    \/ PushBegin(t)
    \/ PushOrphan(t)
    \/ PushScan(t)
    \/ PushSweep(t)
    \/ PushSession(t)
    \/ PushReturn(t)
    \/ PullBegin(t)
    \/ PullEvent(t)
    \/ PullReturn(t)

Trigger ==
    \/ BackgroundSync
    \/ \E op \in {"sync", "push", "pull"} : ApiCaldavSync(op)

Change ==
    \/ \E task_name \in TaskNames, start_time \in StartTimes, end \in BOOLEAN :
            ApiAddSession(task_name, Pomodoro, start_time,
                          IF end THEN start_time + Seconds(Pomodoro) ELSE NoTime,
                          "completed", Pomodoro)
    \/ \E id \in 1..MaxId, task_name \in TaskNames, start_time \in StartTimes :
            ApiUpdateSession(id, task_name, start_time)
    \/ \E id \in 1..MaxId : ApiDeleteSession(id)
    \/ \E id \in 1..MaxId : DeleteSessionRow(id)
    \/ \E id \in 1..MaxId : DeleteMappingRow(id)
    \/ \E ev \in HandEvents : RemotePut(ev)
    \/ \E uid \in RemoteUids : RemoteDelete(uid)
    \/ \E url \in BOOLEAN, reachable \in BOOLEAN : ApiSetCaldavConfig(url, reachable)

\* One call of the engine at a time: the callers start a call, and the outside
\* world changes something, only while no call is running.
Next ==
    \/ AllIdle /\ Trigger
    \/ AllIdle /\ Change
    \/ \E t \in Threads : EngineStep(t)

Spec == Init /\ [][Next]_vars

\* The behaviours in which nothing raises.
SpecClean == InitClean /\ [][Next]_vars

\* The threads of start_stats_server as the code runs them: nothing makes a
\* caller wait for a call that is running, and the outside world does not
\* wait either.  Nothing raises here.
InitConc ==
    /\ sessions = {}
    /\ next_id = 1
    /\ mappings = {}
    /\ remote = {}
    /\ config \in BOOLEAN
    /\ calendar = FALSE
    /\ thr = [t \in Callers |-> IdleThread]
    /\ done = NoDone
    /\ env = MaxEnv
    /\ calls = MaxCalls
    /\ faults = 0
    /\ quiet = 0
    /\ watch = NoWatch
    /\ trip = NoTrip

NextConc ==
    \/ Trigger
    \/ Change
    \/ \E t \in Threads : EngineStep(t)

SpecConc == InitConc /\ [][NextConc]_vars

(***************************************************************************)
(* PomodoroTimer: a work session ends or is abandoned, the session is      *)
(* saved, and sync_to_calendar_async starts the worker; when the timer is  *)
(* about to exit it waits for the worker, for 30 seconds at most.          *)
(***************************************************************************)
\* a join without timeout: it returns only when the worker has finished
join_without_timeout(worker_running, timed_out) == ~worker_running

\* thread.join(timeout=30), line 990: returns when the worker has finished or
\* when 30 seconds have passed
join_returns(worker_running, timed_out) == ~worker_running \/ timed_out

\* PomodoroTimer.sync_to_calendar_async, lines 953-990: the worker is started
\* (without a url it has nothing to do and is finished at once), and the
\* caller either goes on or waits in join.
\* `caller` is the timer as the call leaves it.
sync_to_calendar_async_by(caller) ==
    IF config
        THEN /\ thr["worker"].pc = "idle"
             /\ calls > 0
             /\ calls' = calls - 1
             /\ thr' = [thr EXCEPT !["worker"] = [IdleThread EXCEPT !.pc = "push_begin",
                                                                   !.op = "push"],
                                   !["timer"] = caller]
        ELSE /\ thr' = [thr EXCEPT !["timer"] = caller]
             /\ UNCHANGED calls

sync_to_calendar_async(wait) ==
    sync_to_calendar_async_by([IdleThread EXCEPT !.pc = IF wait THEN "join" ELSE "idle"])

\* lines 1022-1034 (the work session is complete: no wait) and lines 1057-1069,
\* 1103-1113 (the user quits or interrupts: the session is saved as cancelled
\* and the timer waits for the sync before it exits)
TimerSaveAndSync(task_name, start_time, status, completed_seconds) ==
    /\ thr["timer"].pc = "idle"
    /\ next_id <= MaxId
    /\ Outside
    /\ sessions' = add_session(sessions, next_id, task_name, Pomodoro, start_time,
                               start_time + Seconds(completed_seconds), status,
                               completed_seconds)
    /\ next_id' = next_id + 1
    /\ sync_to_calendar_async(status = "cancelled")
    /\ watch' = NoWatch
    /\ trip' = NoTrip
    /\ UNCHANGED <<mappings, remote, config, calendar, done, faults>>

\* line 990: join returns; the worker is left as it is, and the timer records
\* whether it saw the worker finish
TimerJoinReturn ==
    /\ thr["timer"].pc = "join"
    /\ \E timed_out \in BOOLEAN :
            /\ join_returns(Running("worker"), timed_out)
            /\ thr' = [thr EXCEPT !["timer"] =
                            [IdleThread EXCEPT !.last = IF Running("worker")
                                                            THEN "timeout"
                                                            ELSE "joined"]]
    /\ UNCHANGED <<stores, config, calendar, done, env, calls, faults, quiet, watch, trip>>

\* the worker of the timer calls sync_to_calendar only
WorkerStep ==
    \/ PushBegin("worker")
    \/ PushOrphan("worker")
    \/ PushScan("worker")
    \/ PushSweep("worker")
    \/ PushSession("worker")
    \/ PushReturn("worker")

\* how many outside changes a behaviour of the timer has
TimerEnv == 3

\* The timer's process: its own CalDAVSync, one worker at a time; meanwhile
\* the web interface deletes a session and somebody writes to the calendar.
InitTimer ==
    /\ sessions = {}
    /\ next_id = 1
    /\ mappings = {}
    /\ remote = {}
    /\ config \in BOOLEAN
    /\ calendar = FALSE
    /\ thr = [t \in Callers |-> IdleThread]
    /\ done = NoDone
    /\ env = TimerEnv
    /\ calls = MaxCalls
    /\ faults = MaxFaults
    /\ quiet = 0
    /\ watch = NoWatch
    /\ trip = NoTrip

NextTimer ==
    \/ \E task_name \in TaskNames, start_time \in StartTimes,
           status \in {"completed", "cancelled"} :
            TimerSaveAndSync(task_name, start_time, status,
                             IF status = "completed" THEN Pomodoro ELSE 60)
    \/ TimerJoinReturn
    \/ WorkerStep
    \/ \E id \in 1..MaxId : DeleteSessionRow(id)
    \/ \E ev \in HandEvents : RemotePut(ev)

\* join(timeout=30) cannot wait for ever: once the timer is in join, its
\* return stays enabled and is taken.
SpecTimer == InitTimer /\ [][NextTimer]_vars /\ WF_vars(TimerJoinReturn)

(***************************************************************************)
(* find_session_by_time_and_task on its own: any table of sessions, any    *)
(* start time, label and tolerance; `done` holds the call and what it      *)
(* returned.                                                               *)
(***************************************************************************)
LookupTimes == {Seconds(0), Seconds(200), Seconds(200) + 1,
                Seconds(300), Seconds(300) + 1, Seconds(301), Seconds(302)}

LookupTolerances == {0, ToleranceMinutes}

\* the tables in which every id up to MaxId is absent or is a completed
\* session with one of the labels and start times
LookupTables ==
    {{SessionRow(id, f[id][1], Pomodoro, f[id][2], f[id][2] + Seconds(Pomodoro),
                 "completed", Pomodoro) : id \in {i \in 1..MaxId : f[i] # << >>}} :
        f \in [1..MaxId -> {<< >>} \cup (TaskNames \X LookupTimes)]}

FindSession(start_time, task_name, tolerance_minutes) ==
    LET rows == find_session_by_time_and_task(sessions, start_time, task_name,
                                              tolerance_minutes)
        call == [op |-> "find", start_time |-> start_time, task_name |-> task_name,
                 tolerance_minutes |-> tolerance_minutes]
    IN
    /\ calls > 0
    /\ calls' = calls - 1
    /\ IF rows = {}
            THEN done' = call @@ [found |-> {}]
            ELSE \E row \in rows : done' = call @@ [found |-> {row}]
    /\ UNCHANGED <<stores, config, calendar, thr, env, faults, quiet, watch, trip>>

InitLookup ==
    /\ sessions \in LookupTables
    /\ next_id = MaxId + 1
    /\ mappings = {}
    /\ remote = {}
    /\ config = FALSE
    /\ calendar = FALSE
    /\ thr = [t \in Callers |-> IdleThread]
    /\ done = NoDone
    /\ env = 0
    /\ calls = MaxCalls
    /\ faults = 0
    /\ quiet = 0
    /\ watch = NoWatch
    /\ trip = NoTrip

NextLookup ==
    \E start_time \in LookupTimes, task_name \in TaskNames,
       tolerance_minutes \in LookupTolerances :
        FindSession(start_time, task_name, tolerance_minutes)

SpecLookup == InitLookup /\ [][NextLookup]_vars

(***************************************************************************)
(* set_sync_mapping on its own: any table of sync_mapping that the two     *)
(* constraints of the schema allow, any session id and UID, with the url   *)
(* of the event (as pull passes it) or without (as push does); `done`      *)
(* holds the call and the table it found.                                  *)
(***************************************************************************)
\* the tables in which no session id and no UID is in two rows
MappingTables ==
    {M \in SUBSET {MappingRow(id, uid, IF with_url THEN UrlOf(uid) ELSE NoText) :
                        id \in 1..MaxId, uid \in RemoteUids, with_url \in BOOLEAN} :
        \A m1, m2 \in M :
            (m1.session_id = m2.session_id \/ m1.calendar_uid = m2.calendar_uid) => m1 = m2}

SetSyncMapping(session_id, calendar_uid, calendar_url) ==
    /\ calls > 0
    /\ calls' = calls - 1
    /\ mappings' = set_sync_mapping(mappings, session_id, calendar_uid, calendar_url)
    /\ done' = [op |-> "set", session_id |-> session_id, calendar_uid |-> calendar_uid,
                calendar_url |-> calendar_url, before |-> mappings]
    /\ UNCHANGED <<sessions, next_id, remote, config, calendar, thr, env, faults,
                   quiet, watch, trip>>

InitMapping ==
    /\ sessions = {}
    /\ next_id = MaxId + 1
    /\ mappings \in MappingTables
    /\ remote = {}
    /\ config = FALSE
    /\ calendar = FALSE
    /\ thr = [t \in Callers |-> IdleThread]
    /\ done = NoDone
    /\ env = 0
    /\ calls = MaxCalls
    /\ faults = 0
    /\ quiet = 0
    /\ watch = NoWatch
    /\ trip = NoTrip

NextMapping ==
    \E session_id \in 1..MaxId, calendar_uid \in RemoteUids, with_url \in BOOLEAN :
        SetSyncMapping(session_id, calendar_uid,
                       IF with_url THEN UrlOf(calendar_uid) ELSE NoText)

SpecMapping == InitMapping /\ [][NextMapping]_vars

(***************************************************************************)
(* The user deletes a session in the web interface while background_sync   *)
(* runs: the stores start as the first push of one session left them, the  *)
(* request handler of api_delete_session deletes and starts its worker,    *)
(* and the background thread syncs.  Nothing raises.                       *)
(***************************************************************************)
\* the stores, and what the push returned, after api_add_session and the
\* push of its worker; f failures are still to come
Synced(f) ==
    \E task_name \in TaskNames, start_time \in StartTimes, end \in BOOLEAN :
        LET s == SessionRow(1, task_name, Pomodoro, start_time,
                            IF end THEN start_time + Seconds(Pomodoro) ELSE NoTime,
                            "completed", Pomodoro)
        IN  /\ sessions = {s}
            /\ next_id = 2
            /\ mappings = {MappingRow(1, SessionUid(1), NoText)}
            /\ remote = {EventOfSession(s, SessionUid(1))}
            /\ config = TRUE
            /\ calendar = TRUE
            /\ thr = [t \in Callers |-> IdleThread]
            /\ done = [NoDone EXCEPT !.op = "push", !.success = TRUE,
                                     !.to_calendar = [NoResult EXCEPT !.success = TRUE,
                                                                      !.error = "",
                                                                      !.synced = 1],
                                     !.session_ids = {1}, !.processed = {1},
                                     !.touched = TRUE]
            /\ env = MaxEnv
            /\ calls = MaxCalls
            /\ faults = f
            /\ quiet = 0
            /\ watch = NoWatch
            /\ trip = [NoTrip EXCEPT !.stage = "pushed", !.session_id = 1,
                                     !.calendar_uid = SessionUid(1)]

InitSynced == Synced(0)

\* api_delete_session and its worker, background_sync and its sync()
NextDelete ==
    \/ \E id \in 1..MaxId : ApiDeleteSession(id)
    \/ BackgroundSync
    \/ \E t \in {"bg", "worker"} : PushBegin(t)
    \/ \E t \in {"bg", "worker"} : PushScan(t)
    \/ \E t \in {"bg", "worker"} : PushSweep(t)
    \/ \E t \in {"bg", "worker"} : PushSession(t)
    \/ \E t \in {"bg", "worker"} : PushReturn(t)
    \/ PullBegin("bg")
    \/ PullEvent("bg")
    \/ PullReturn("bg")

SpecDelete == InitSynced /\ [][NextDelete]_vars

(***************************************************************************)
(* Pushes of sessions that are mapped already, while the calls of the      *)
(* remote calendar raise: up to PushFaults of them in a behaviour, so that *)
(* the update, the deletion and the recreation of one event can all fail.  *)
(***************************************************************************)
PushFaults == 3

InitFaulty == Synced(PushFaults)

\* one call at a time, as in Next
NextFaulty ==
    \/ /\ AllIdle
       /\ \E task_name \in TaskNames, start_time \in StartTimes :
            ApiAddSession(task_name, Pomodoro, start_time,
                          start_time + Seconds(Pomodoro), "completed", Pomodoro)
    \/ AllIdle /\ ApiCaldavSync("push")
    \/ \E t \in {"req", "worker"} : PushBegin(t)
    \/ \E t \in {"req", "worker"} : PushScan(t)
    \/ \E t \in {"req", "worker"} : PushSession(t)
    \/ \E t \in {"req", "worker"} : PushReturn(t)

SpecFaulty == InitFaulty /\ [][NextFaulty]_vars

(***************************************************************************)
(* Pulls that meet a mapping whose session is gone: the stores start as    *)
(* the first push of one session left them, sessions are added through the *)
(* API, rows of either table are deleted behind it, and sync/pull is       *)
(* requested.  The pull may hand out one id more than the API does, so     *)
(* that an event is imported next to two sessions made before.  Nothing    *)
(* raises.                                                                 *)
(***************************************************************************)
StaleIds == 3

NextStale ==
    \/ /\ AllIdle
       /\ \E task_name \in TaskNames, start_time \in StartTimes :
            ApiAddSession(task_name, Pomodoro, start_time,
                          start_time + Seconds(Pomodoro), "completed", Pomodoro)
    \/ AllIdle /\ \E id \in 1..MaxId : DeleteSessionRow(id)
    \/ AllIdle /\ \E id \in 1..MaxId : DeleteMappingRow(id)
    \/ AllIdle /\ ApiCaldavSync("pull")
    \/ PushBegin("worker")
    \/ PushOrphan("worker")
    \/ PushScan("worker")
    \/ PushSession("worker")
    \/ PushReturn("worker")
    \/ PullBegin("req")
    \/ PullEventUpTo("req", StaleIds)
    \/ PullReturn("req")

SpecStale == InitSynced /\ [][NextStale]_vars

(***************************************************************************)
(* Round trips of a session the timer saved: the table holds one session   *)
(* as start_session wrote it, completed after the planned 25 minutes or    *)
(* cancelled after one minute (lines 1018-1036, 1052-1072), nothing is     *)
(* pushed yet, and a url is configured.  Push, pull and sync are requested *)
(* one after the other, and a row of sync_mappings may be deleted behind   *)
(* the API.  Nothing raises.                                               *)
(***************************************************************************)
RoundEnv == 1
RoundCalls == 3

InitRound ==
    /\ \E task_name \in TaskNames, start_time \in StartTimes,
          status \in {"completed", "cancelled"} :
            LET completed_seconds == IF status = "completed" THEN Pomodoro ELSE 60
            IN  sessions = {SessionRow(1, task_name, Pomodoro, start_time,
                                       start_time + Seconds(completed_seconds),
                                       status, completed_seconds)}
    /\ next_id = 2
    /\ mappings = {}
    /\ remote = {}
    /\ config = TRUE
    /\ calendar = FALSE
    /\ thr = [t \in Callers |-> IdleThread]
    /\ done = NoDone
    /\ env = RoundEnv
    /\ calls = RoundCalls
    /\ faults = 0
    /\ quiet = 0
    /\ watch = NoWatch
    /\ trip = NoTrip

NextRound ==
    \/ AllIdle /\ \E op \in {"push", "pull", "sync"} : ApiCaldavSync(op)
    \/ AllIdle /\ \E id \in 1..MaxId : DeleteMappingRow(id)
    \/ PushBegin("req")
    \/ PushScan("req")
    \/ PushSession("req")
    \/ PushReturn("req")
    \/ PullBegin("req")
    \/ PullEvent("req")
    \/ PullReturn("req")

SpecRound == InitRound /\ [][NextRound]_vars

(***************************************************************************)
(* Pulls of a calendar in which somebody made two events by hand, titled   *)
(* with the marker, 300 or 301 seconds apart or at the same time.  The     *)
(* table holds up to MaxId sessions, each pushed (mapped, with its event   *)
(* in the calendar) or not; sync/pull is requested.  The pull may hand out *)
(* two ids, one for each event.  Nothing raises.                           *)
(***************************************************************************)
TwinIds == 4

HandUid2 == <<"hand-2">>

TwinStarts == {Seconds(0), Seconds(300), Seconds(301)}

\* a session starts with the first event or half a second beyond the
\* tolerance after the second
TwinSessionStarts == {Seconds(0), Seconds(600) + 1}

TwinTables ==
    {{SessionRow(id, f[id][1], Pomodoro, f[id][2], f[id][2] + Seconds(Pomodoro),
                 "completed", Pomodoro) : id \in {i \in 1..MaxId : f[i] # << >>}} :
        f \in [1..MaxId -> {<< >>} \cup (TaskNames \X TwinSessionStarts)]}

InitTwins ==
    /\ sessions \in TwinTables
    /\ next_id = MaxId + 1
    /\ \E pushed \in SUBSET sessions, start1 \in TwinStarts, start2 \in TwinStarts,
          label2 \in {"a", "b"} :
            /\ mappings = {MappingRow(s.id, SessionUid(s.id), NoText) : s \in pushed}
            /\ remote = {EventOfSession(s, SessionUid(s.id)) : s \in pushed}
                    \cup {EventRow(HandUid, <<TOMATO, " ", "a">>, NoDescription,
                                   start1, start1 + Seconds(Pomodoro)),
                          EventRow(HandUid2, <<TOMATO, " ", label2>>, NoDescription,
                                   start2, start2 + Seconds(Pomodoro))}
    /\ config = TRUE
    /\ calendar = TRUE
    /\ thr = [t \in Callers |-> IdleThread]
    /\ done = NoDone
    /\ env = 0
    /\ calls = MaxCalls
    /\ faults = 0
    /\ quiet = 0
    /\ watch = NoWatch
    /\ trip = NoTrip

NextTwins ==
    \/ AllIdle /\ ApiCaldavSync("pull")
    \/ PullBegin("req")
    \/ PullEventUpTo("req", TwinIds)
    \/ PullReturn("req")

SpecTwins == InitTwins /\ [][NextTwins]_vars

(***************************************************************************)
(* PomodoroTimer.run and start_session, step by step: the countdown, the   *)
(* save of the completed session, the start of the sync, the switch to the *)
(* break, and Ctrl+C (KeyboardInterrupt) at any of these points, caught in *)
(* start_session (the prompt: Enter, 'r' or 'q') or in run.  The timer's   *)
(* fields are in thr["timer"]; `work` numbers the work sessions begun and  *)
(* `stored` remembers which of them each saved row belongs to.             *)
(***************************************************************************)
\* session ids of a behaviour of the loop
LoopIds == 2

\* work_duration in seconds (duration_seconds of __init__, line 905)
WorkSeconds == 2

\* short_break and long_break, lines 906-907 (5 * 60 and 15 * 60 seconds),
\* counted down here in fewer steps
ShortBreak == 1

LongBreak == 2

\* how often Ctrl+C is pressed in a behaviour
MaxInterrupts == 2

\* __init__, lines 903-915
NewPomodoroTimer(task_name, duration_seconds) ==
    [pc |-> "call", handler |-> "none", last |-> "none",
     task_name |-> task_name, work_duration |-> duration_seconds,
     pomodoro_count |-> 0, is_work_session |-> TRUE,
     remaining_time |-> duration_seconds, session_start_time |-> NoTime,
     now |-> T0, work |-> 0, stored |-> {}, interrupts |-> 0]

\* self.db.save_session(task_name, work_duration, session_start_time,
\* datetime.now(), status, int(work_duration - remaining_time)), lines
\* 1023-1032, 1058-1067 and 1102-1111
LoopSave(me, status) ==
    /\ next_id <= LoopIds
    /\ Outside
    /\ sessions' = add_session(sessions, next_id, me.task_name, me.work_duration,
                               me.session_start_time, me.now, status,
                               me.work_duration - me.remaining_time)
    /\ next_id' = next_id + 1
    /\ watch' = NoWatch
    /\ trip' = NoTrip

\* lines 994-1008: start_session is called (line 1096) and sets the countdown
\* up, for a work session or for a break
LoopStart ==
    LET me == thr["timer"] IN
    /\ me.pc = "call"
    /\ thr' = [thr EXCEPT !["timer"] =
                IF me.is_work_session
                    THEN [me EXCEPT !.pc = "count",
                                    !.remaining_time = me.work_duration,
                                    !.session_start_time = me.now,
                                    !.work = me.work + 1]
                    ELSE [me EXCEPT !.pc = "count",
                                    !.remaining_time =
                                        IF me.pomodoro_count > 0 /\ me.pomodoro_count % 4 = 0
                                            THEN LongBreak ELSE ShortBreak]]
    /\ UNCHANGED <<stores, config, calendar, done, env, calls, faults, quiet, watch, trip>>

\* lines 1011-1016: one second of the countdown
LoopTick ==
    LET me == thr["timer"] IN
    /\ me.pc = "count"
    /\ me.remaining_time > 0
    /\ thr' = [thr EXCEPT !["timer"] =
                [me EXCEPT !.remaining_time = me.remaining_time - 1,
                           !.now = me.now + Seconds(1)]]
    /\ UNCHANGED <<stores, config, calendar, done, env, calls, faults, quiet, watch, trip>>

\* lines 1020-1032: the countdown of a work session is over and the session
\* is saved as completed
LoopSaveCompleted ==
    LET me == thr["timer"] IN
    /\ me.pc = "count"
    /\ me.remaining_time = 0
    /\ me.is_work_session
    /\ LoopSave(me, "completed")
    /\ thr' = [thr EXCEPT !["timer"] = [me EXCEPT !.pc = "saved",
                                                  !.stored = @ \cup
                                                      {[work |-> me.work, id |-> next_id, status |-> "completed"]}]]
    /\ UNCHANGED <<mappings, remote, config, calendar, done, calls, faults>>

\* line 1034: sync_to_calendar_async() without wait
LoopSync ==
    LET me == thr["timer"] IN
    /\ me.pc = "saved"
    /\ sync_to_calendar_async_by([me EXCEPT !.pc = "synced"])
    /\ UNCHANGED <<stores, config, calendar, done, env, faults, quiet, watch, trip>>

\* lines 1035-1041: the count, the messages and the beeps
LoopCount ==
    LET me == thr["timer"] IN
    /\ me.pc = "synced"
    /\ thr' = [thr EXCEPT !["timer"] = [me EXCEPT !.pc = "counted",
                                                  !.pomodoro_count = me.pomodoro_count + 1]]
    /\ UNCHANGED <<stores, config, calendar, done, env, calls, faults, quiet, watch, trip>>

\* line 1042: the loop switches to the break
LoopSwitch ==
    LET me == thr["timer"] IN
    /\ me.pc = "counted"
    /\ thr' = [thr EXCEPT !["timer"] = [me EXCEPT !.pc = "sleep",
                                                  !.is_work_session = FALSE]]
    /\ UNCHANGED <<stores, config, calendar, done, env, calls, faults, quiet, watch, trip>>

\* lines 1043-1046: the countdown of a break is over
LoopBreakOver ==
    LET me == thr["timer"] IN
    /\ me.pc = "count"
    /\ me.remaining_time = 0
    /\ ~me.is_work_session
    /\ thr' = [thr EXCEPT !["timer"] = [me EXCEPT !.pc = "sleep",
                                                  !.is_work_session = TRUE]]
    /\ UNCHANGED <<stores, config, calendar, done, env, calls, faults, quiet, watch, trip>>

\* lines 1048 and 1082: time.sleep(2), return True, and run calls
\* start_session again
LoopReturn ==
    LET me == thr["timer"] IN
    /\ me.pc = "sleep"
    /\ thr' = [thr EXCEPT !["timer"] = [me EXCEPT !.pc = "call",
                                                  !.now = me.now + Seconds(2)]]
    /\ UNCHANGED <<stores, config, calendar, done, env, calls, faults, quiet, watch, trip>>

\* lines 1050-1053: Ctrl+C inside the try of start_session
KeyboardInterruptInStartSession ==
    LET me == thr["timer"] IN
    /\ me.handler = "none"
    /\ me.pc \in {"count", "saved", "synced", "counted", "sleep"}
    /\ me.interrupts < MaxInterrupts
    /\ thr' = [thr EXCEPT !["timer"] = [me EXCEPT !.pc = "prompt",
                                                  !.handler = "start_session",
                                                  !.interrupts = me.interrupts + 1]]
    /\ UNCHANGED <<stores, config, calendar, done, env, calls, faults, quiet, watch, trip>>

\* lines 1055-1067 and 1070: 'q' at the prompt
LoopQuit ==
    LET me == thr["timer"] IN
    /\ me.pc = "prompt"
    /\ IF me.is_work_session /\ me.session_start_time # NoTime
        THEN /\ LoopSave(me, "cancelled")
             /\ thr' = [thr EXCEPT !["timer"] = [me EXCEPT !.pc = "quit_saved",
                                                           !.stored = @ \cup
                                                               {[work |-> me.work, id |-> next_id, status |-> "cancelled"]}]]
        ELSE /\ thr' = [thr EXCEPT !["timer"] = [me EXCEPT !.pc = "exit"]]
             /\ UNCHANGED <<sessions, next_id, env, quiet, watch, trip>>
    /\ UNCHANGED <<mappings, remote, config, calendar, done, calls, faults>>

\* lines 1069 and 1113: sync_to_calendar_async(wait=True)
LoopQuitSync ==
    LET me == thr["timer"] IN
    /\ me.pc = "quit_saved"
    /\ sync_to_calendar_async_by([me EXCEPT !.pc = "join"])
    /\ UNCHANGED <<stores, config, calendar, done, env, faults, quiet, watch, trip>>

\* line 990, then line 1070 (return False and run leaves its loop) or line
\* 1114
LoopJoinReturn ==
    LET me == thr["timer"] IN
    /\ me.pc = "join"
    /\ \E timed_out \in BOOLEAN :
            /\ join_returns(Running("worker"), timed_out)
            /\ thr' = [thr EXCEPT !["timer"] =
                            [me EXCEPT !.pc = "exit",
                                       !.last = IF Running("worker") THEN "timeout"
                                                                     ELSE "joined"]]
    /\ UNCHANGED <<stores, config, calendar, done, env, calls, faults, quiet, watch, trip>>

\* lines 1071-1076: 'r' at the prompt
LoopReset ==
    LET me == thr["timer"] IN
    /\ me.pc = "prompt"
    /\ thr' = [thr EXCEPT !["timer"] =
                [me EXCEPT !.pc = "call",
                           !.handler = "none",
                           !.remaining_time = IF me.is_work_session THEN me.work_duration
                                                                    ELSE ShortBreak,
                           !.session_start_time = IF me.is_work_session THEN me.now
                                                                        ELSE @]]
    /\ UNCHANGED <<stores, config, calendar, done, env, calls, faults, quiet, watch, trip>>

\* lines 1077-1080: Enter at the prompt
LoopResume ==
    LET me == thr["timer"] IN
    /\ me.pc = "prompt"
    /\ thr' = [thr EXCEPT !["timer"] = [me EXCEPT !.pc = "call", !.handler = "none"]]
    /\ UNCHANGED <<stores, config, calendar, done, env, calls, faults, quiet, watch, trip>>

\* lines 1098-1111 and 1114: Ctrl+C outside the try of start_session (between
\* two calls of start_session, at the prompt, or while 'q' is carried out)
\* reaches the handler of run
KeyboardInterruptInRun ==
    LET me == thr["timer"]
        caught == [me EXCEPT !.handler = "run", !.interrupts = me.interrupts + 1]
    IN  /\ \/ me.handler = "none" /\ me.pc = "call"
           \/ me.handler = "start_session" /\ me.pc \in {"prompt", "quit_saved", "join"}
        /\ me.interrupts < MaxInterrupts
        /\ IF me.is_work_session /\ me.session_start_time # NoTime
            THEN /\ LoopSave(me, "cancelled")
                 /\ thr' = [thr EXCEPT !["timer"] =
                                [caught EXCEPT !.pc = "quit_saved",
                                               !.stored = @ \cup
                                                   {[work |-> me.work, id |-> next_id, status |-> "cancelled"]}]]
            ELSE /\ thr' = [thr EXCEPT !["timer"] = [caught EXCEPT !.pc = "exit"]]
                 /\ UNCHANGED <<sessions, next_id, env, quiet, watch, trip>>
        /\ UNCHANGED <<mappings, remote, config, calendar, done, calls, faults>>

\* One timer with its worker; the calendar is configured or not.
InitLoop ==
    /\ sessions = {}
    /\ next_id = 1
    /\ mappings = {}
    /\ remote = {}
    /\ config \in BOOLEAN
    /\ calendar = FALSE
    /\ \E task_name \in TaskNames :
        thr = [t \in Callers |-> IF t = "timer"
                                    THEN NewPomodoroTimer(task_name, WorkSeconds)
                                    ELSE IdleThread]
    /\ done = NoDone
    /\ env = LoopIds
    /\ calls = LoopIds
    /\ faults = 0
    /\ quiet = 0
    /\ watch = NoWatch
    /\ trip = NoTrip

NextLoop ==
    \/ LoopStart
    \/ LoopTick
    \/ LoopSaveCompleted
    \/ LoopSync
    \/ LoopCount
    \/ LoopSwitch
    \/ LoopBreakOver
    \/ LoopReturn
    \/ KeyboardInterruptInStartSession
    \/ LoopQuit
    \/ LoopQuitSync
    \/ LoopJoinReturn
    \/ LoopReset
    \/ LoopResume
    \/ KeyboardInterruptInRun
    \/ PushBegin("worker")
    \/ PushScan("worker")
    \/ PushSession("worker")
    \/ PushReturn("worker")

SpecLoop == InitLoop /\ [][NextLoop]_vars

(***************************************************************************)
(* The claims.                                                             *)
(***************************************************************************)

\* C2: in every reachable state each session id is in at most one
\* sync_mapping row and each calendar UID is in at most one sync_mapping row.
C2_MappingUnique ==
    \A m1, m2 \in mappings :
        (m1.session_id = m2.session_id \/ m1.calendar_uid = m2.calendar_uid) => m1 = m2

\* a row written by pull and a row written by push stand side by side
C2_Witness ==
    \E m1, m2 \in mappings :
        /\ m1.session_id # m2.session_id
        /\ m1.calendar_url = NoText
        /\ m2.calendar_url # NoText

\* C8: inside sync() pull starts only after push has returned, both run, both
\* results are in the value returned, and 'success' is true exactly when both
\* results say success.
C8_SyncPushThenPull ==
    /\ \A t \in Threads :
        thr[t].op = "sync" =>
            /\ thr[t].pc \in {"push_begin", "push_orphans", "push_scan", "push_sweep",
                              "push_sessions"}
                    => thr[t].result_to = NoResult /\ thr[t].result_from = NoResult
            /\ thr[t].pc \in {"pull_begin", "pull_events"}
                    => thr[t].result_to # NoResult /\ thr[t].result_from = NoResult
    /\ done.op = "sync" =>
            /\ done.to_calendar # NoResult
            /\ done.from_calendar # NoResult
            /\ done.success = (done.to_calendar.success /\ done.from_calendar.success)

\* a sync whose push failed and whose pull succeeded has returned
C8_Witness ==
    /\ done.op = "sync"
    /\ ~done.to_calendar.success
    /\ done.from_calendar.success

\* C9 as stated: without a configured url, sync() returns success = true and
\* changes no store.
C9_NoConfigIsSuccess ==
    (done.op = "sync" /\ ~done.configured) => (done.success /\ ~done.touched)

\* C9 as amended: without a configured url, every step of sync() leaves the
\* sessions, the mappings and the calendar as they are, and sync() returns
\* success = false, both results carrying 'No CalDAV URL configured'.
C9_NoConfigIsFailure ==
    [][\A t \in Threads :
        (thr[t].op = "sync" /\ ~config /\ thr'[t] # thr[t]) =>
            /\ stores' = stores
            /\ thr'[t].pc = "idle" =>
                /\ ~done'.success
                /\ done'.to_calendar = Failure("No CalDAV URL configured")
                /\ done'.from_calendar = Failure("No CalDAV URL configured")]_vars

C9_Witness ==
    /\ done.op = "sync"
    /\ ~done.configured
    /\ ~done.success
    /\ sessions # {}

\* C10 as stated: when the engine cannot connect at the start of sync(), sync()
\* fails and neither push nor pull reads or writes a store.
C10_ConnectFailureSkipsBoth ==
    (done.op = "sync" /\ done.configured /\ ~done.connected)
        => (~done.success /\ ~done.touched)



\* C1: the second of two syncs in succession, with no change between them
\* and nothing raising, reports that push created, updated and deleted
\* nothing.
C1_SecondSyncReportsZero ==
    quiet = 2 =>
        /\ done.to_calendar.synced = 0
        /\ done.to_calendar.updated = 0
        /\ done.to_calendar.deleted = 0

\* C3 as stated: once the row of a mapped session is deleted and a push has
\* then returned success with nothing raising, the session has no mapping
\* and a search of the calendar by the mapped UID finds nothing.
C3_OrphanGone ==
    watch.pushed =>
        /\ get_sync_mapping(mappings, watch.session_id, NoText) = {}
        /\ search_uid(remote, watch.calendar_uid) = {}

\* C4: a session is created in empty stores and pushed, its mapping row is
\* deleted, and a pull follows: the pull reports one updated and none
\* imported, the number of sessions is the same, and the session is mapped
\* again to the UID it was pushed under.
C4_RoundTrip ==
    trip.stage = "pulled" =>
        /\ done.from_calendar.updated = 1
        /\ done.from_calendar.imported = 0
        /\ Cardinality(sessions) = trip.count
        /\ \E m \in get_sync_mapping(mappings, trip.session_id, NoText) :
                m.calendar_uid = trip.calendar_uid

\* C6: when creating, updating or recreating the event of a session raises
\* (in the calendar or in the database), push still goes through every
\* session it read.
C6_PushContinuesOnError ==
    ( /\ done.op \in {"push", "sync"}
      /\ done.faulted # {}
      /\ done.faulted \subseteq {"search_add_fail", "save_fails", "save_delete_fail",
                                 "save_add_fail", "save_delete_add_fail",
                                 "add_fails_once", "add_fails", "set_fails"} )
    => done.processed = done.session_ids

\* C3 as amended: in that state the session has no mapping, and what a
\* search by the mapped UID finds is only the event that push created for a
\* remaining session whose own UID (pomodoro-<id>@pomodoro-timer) it is.
C3_OrphanGoneOrReused ==
    watch.pushed =>
        /\ get_sync_mapping(mappings, watch.session_id, NoText) = {}
        /\ \A e \in search_uid(remote, watch.calendar_uid) :
                \E s \in sessions :
                    /\ SessionUid(s.id) = watch.calendar_uid
                    /\ e = EventOfSession(s, watch.calendar_uid)

C3_Witness ==
    /\ watch.pushed
    /\ done.to_calendar.deleted = 1
    /\ search_uid(remote, watch.calendar_uid) = {}

\* C5: when saving the event of a mapped session raises during push, the
\* step leaves exactly the session's event under the mapped UID, counts the
\* session as updated, leaves the mapping table alone; and a push in which
\* nothing else raised returns success.
C5_ConflictRecovery ==
    [][ /\ \A t \in Threads :
            ( /\ thr[t].pc = "push_sessions"
              /\ thr'[t].pc = "push_sessions"
              /\ thr'[t].i = thr[t].i + 1
              /\ thr'[t].last \in {"save_fails", "save_delete_fail"} )
            => LET s == thr[t].sessions[thr[t].i]
                   m == CHOOSE x \in get_sync_mapping(mappings, s.id, NoText) : TRUE
               IN  /\ search_uid(remote', m.calendar_uid) = {EventOfSession(s, m.calendar_uid)}
                   /\ thr'[t].updated = thr[t].updated + 1
                   /\ thr'[t].synced = thr[t].synced
                   /\ mappings' = mappings
        /\ ( /\ done'.op \in {"push", "sync"}
             /\ done'.faulted # {}
             /\ done'.faulted \subseteq {"save_fails", "save_delete_fail"} )
           => /\ done'.to_calendar.success
              /\ done'.to_calendar.updated >= 1
              /\ done'.processed = done'.session_ids
      ]_vars

C5_Witness ==
    /\ done.op = "push"
    /\ done.faulted = {"save_fails"}
    /\ done.to_calendar.success
    /\ done.to_calendar.updated = 1

\* C7: at most one call of push, pull or sync is running at any time.
C7_OneSyncInFlight == Cardinality({t \in Threads : Running(t)}) <= 1

\* C11: whatever raised while connecting, in the calendar or in the
\* database, the result that push, pull and sync hand to their caller is a
\* result record, not an exception, and its success flag is false exactly
\* when it carries an error.
C11_StructuredResults ==
    /\ \A t \in Threads :
        thr[t].pc \in {"pull_begin", "pull_events"} /\ thr[t].op = "sync"
            => /\ ~thr[t].result_to.raised
               /\ thr[t].result_to.success = (thr[t].result_to.error = "")
    /\ done.op \in {"push", "sync"}
        => /\ ~done.to_calendar.raised
           /\ done.to_calendar.success = (done.to_calendar.error = "")
    /\ done.op \in {"pull", "sync"}
        => /\ ~done.from_calendar.raised
           /\ done.from_calendar.success = (done.from_calendar.error = "")
    /\ done.op = "push" => done.success = done.to_calendar.success
    /\ done.op = "pull" => done.success = done.from_calendar.success

C11_Witness ==
    /\ done.op = "sync"
    /\ done.faulted \cap {"db_fails", "get_fails", "add_fails", "set_fails"} # {}
    /\ done.to_calendar = Failure("exception") \/ done.to_calendar = Failure("database error")
    /\ done.from_calendar.success

\* C12: a pull in which the processing of an event raised has counted that
\* event as skipped, has gone through every event of the enumeration, and
\* returns success.
C12_PullContinuesOnError ==
    "item_raises" \in done.faulted =>
        /\ done.from_calendar.success
        /\ done.from_calendar.skipped >= 1
        /\ done.seen = 1..done.from_calendar.total_events

C12_Witness ==
    /\ "item_raises" \in done.faulted
    /\ done.from_calendar.total_events = 2
    /\ done.from_calendar.imported = 1

\* C13: every event of the enumeration is counted by a pull that returns
\* success: imported + updated + skipped is the number of events, an event
\* of ours without DTSTART being one of the skipped.
C13_EveryEventCounted ==
    (done.op \in {"pull", "sync"} /\ done.from_calendar.success) =>
        done.from_calendar.imported + done.from_calendar.updated
            + done.from_calendar.skipped = done.from_calendar.total_events

\* C14: after the push of a store that holds one session, no mapping, and
\* of an empty calendar, the result is synced = 1, updated = 0, deleted = 0,
\* the calendar holds one event and the mapping table one row, from the
\* session to the UID pomodoro-<id>@pomodoro-timer.
C14_FirstPush ==
    [][(trip.stage = "created" /\ trip'.stage = "pushed") =>
        /\ done'.op = "push"
        /\ done'.to_calendar.synced = 1
        /\ done'.to_calendar.updated = 0
        /\ done'.to_calendar.deleted = 0
        /\ Cardinality(remote') = 1
        /\ \A e \in remote' : e.uid = <<UID_PREFIX, IdText[trip.session_id], UID_SUFFIX>>
        /\ mappings' = {MappingRow(trip.session_id,
                                   <<UID_PREFIX, IdText[trip.session_id], UID_SUFFIX>>,
                                   NoText)}]_vars

C14_Witness ==
    /\ trip.stage = "pushed"
    /\ Cardinality(sessions) = 1
    /\ done.session_ids = {trip.session_id}
    /\ done.to_calendar.synced = 1

\* C15: when pull processes the only event of the calendar, titled with the
\* marker, a blank and a task label (no blank at either end of the label,
\* no marker inside it), ending 25 minutes after its start,
\* while there is no session and no mapping, it creates one session (the
\* label as task name, 1500 seconds planned, status completed) and one
\* mapping from that session to the UID of the event.
C15_PullImportsOne ==
    [][\A t \in Threads :
        LET me == thr[t]
            ev == me.events[me.i]
        IN  ( /\ me.pc = "pull_events"
              /\ me.i = 1
              /\ Len(me.events) = 1
              /\ thr'[t].i = 2
              /\ thr'[t].faulted = me.faulted
              /\ sessions = {}
              /\ mappings = {}
              /\ ev.dtstart # NoTime
              /\ ev.dtend = ev.dtstart + Seconds(25 * 60)
              /\ Len(ev.summary) > 2
              /\ ev.summary[1] = TOMATO
              /\ ev.summary[2] = " "
              /\ ev.summary[3] # " "
              /\ ev.summary[Len(ev.summary)] # " "
              /\ \A k \in 3..Len(ev.summary) : ev.summary[k] # TOMATO )
            => /\ thr'[t].imported = me.imported + 1
               /\ Cardinality(sessions') = 1
               /\ \A s \in sessions' :
                    /\ s.task_name = Tail(Tail(ev.summary))
                    /\ s.duration_seconds = 1500
                    /\ s.status = "completed"
                    /\ s.start_time = ev.dtstart
                    /\ mappings' = {MappingRow(s.id, ev.uid, UrlOf(ev.uid))}
      ]_vars

C15_Witness ==
    /\ done.op = "pull"
    /\ done.from_calendar.imported = 1
    /\ done.from_calendar.total_events = 1
    /\ Cardinality(sessions) = 1
    /\ Cardinality(mappings) = 1
    /\ \A s \in sessions : s.task_name = <<"a">> /\ s.duration_seconds = 1500
    /\ \A m \in mappings : m.calendar_uid = HandUid

\* C16: when push returns success, every row of the mapping table is the
\* row of a session that exists, also when the search for the event of an
\* orphan or its deletion raised.
C16_NoOrphanAfterPush ==
    [][\A t \in Threads :
        ( /\ thr[t].pc = "push_sessions"
          /\ thr[t].i > Len(thr[t].sessions)
          /\ thr'[t] # thr[t] )
        => \A m \in mappings' : session_exists(sessions', m.session_id)
      ]_vars

C16_Witness ==
    /\ done.op = "push"
    /\ done.to_calendar.success
    /\ done.faulted \cap {"orphan_search_fails", "orphan_delete_fails"} # {}
    /\ \A m \in mappings : session_exists(sessions, m.session_id)

\* C17: the loop of background_sync never ends: it calls sync() only when
\* a url is configured, and when the call returns, failed or not, the thread
\* is back waiting for the next round.
C17_BackgroundLoopSurvives ==
    [][ /\ thr'["bg"].pc # "dead"
        /\ (thr["bg"].pc = "idle" /\ thr'["bg"].pc # "idle")
            => /\ config
               /\ thr'["bg"].op = "sync"
               /\ thr'["bg"].pc = "push_begin"
        /\ (thr["bg"].pc # "idle" /\ thr'["bg"].pc \notin {"push_begin", "push_orphans",
                    "push_scan", "push_sweep", "push_sessions", "pull_begin", "pull_events"})
            => thr'["bg"] = [IdleThread EXCEPT !.retry = ~done'.success]
      ]_vars

C17_Witness ==
    /\ thr["bg"].retry
    /\ thr["bg"].pc = "pull_events"
    /\ ~done.success

\* C18: an invocation of sync_to_calendar_async with the bounded wait always
\* returns: the timer that waits in join goes on, after the worker has
\* finished or after the 30 seconds have passed, whichever comes first; and
\* the return does not cancel the worker, which is left exactly as it was
\* (still running when the wait timed out).
C18_BoundedWaitReturns ==
    /\ (thr["timer"].pc = "join") ~> (thr["timer"].pc = "idle")
    /\ [][(thr["timer"].pc = "join" /\ thr'["timer"].pc = "idle")
            => /\ thr'["worker"] = thr["worker"]
               /\ thr'["timer"].last = IF Running("worker") THEN "timeout" ELSE "joined"
               /\ UNCHANGED <<stores, done>>]_vars

\* the wait has timed out, and the worker goes on with its push
C18_Witness ==
    /\ thr["timer"].pc = "idle"
    /\ thr["timer"].last = "timeout"
    /\ thr["worker"].pc = "push_sessions"
    /\ \E s \in sessions : s.status = "cancelled"

\* C19: an invocation of sync_to_calendar_async without wait returns without
\* waiting for the worker (the caller is idle in the very step that starts
\* the worker), and whatever ends the worker -- no configuration, a failed
\* connection, a failed push, an exception -- ends only the worker: the step
\* in which the worker stops leaves every other thread, the sessions and the
\* configuration as they are, and the worker is finished, not dead.
C19_FireAndForget ==
    [][/\ \A t \in Callers : thr'[t].pc # "dead"
       /\ (thr["worker"].pc = "idle" /\ thr'["worker"].pc # "idle"
            /\ \E s \in sessions' \ sessions : s.status = "completed")
            => thr'["timer"].pc = "idle"
       /\ (thr["worker"].pc # "idle" /\ thr'["worker"].pc \in {"idle", "dead"})
            => /\ thr'["worker"] = IdleThread
               /\ \A t \in Callers \ {"worker"} : thr'[t] = thr[t]
               /\ UNCHANGED <<sessions, next_id, config>>]_vars

\* a worker started without wait has failed, and the timer is where it was
C19_Witness ==
    /\ done.op = "push"
    /\ ~done.success
    /\ done.faulted # {}
    /\ thr = [t \in Callers |-> IdleThread]
    /\ \E s \in sessions : s.status = "completed"
    /\ \A s \in sessions : s.status # "cancelled"

\* C20: the fuzzy lookup returns a session with exactly the label asked for,
\* whose start is within the tolerance of the given time and whose distance
\* to it is minimal among all such sessions; and it returns none when no
\* session with that label starts within the tolerance.
C20_ClosestWithinTolerance ==
    done.op = "find" =>
        LET within == {s \in sessions :
                        /\ s.task_name = done.task_name
                        /\ Abs(s.start_time - done.start_time)
                                <= Seconds(done.tolerance_minutes * 60)}
        IN  IF done.found = {}
                THEN within = {}
                ELSE \A row \in done.found :
                        /\ row \in within
                        /\ \A o \in within :
                                Abs(row.start_time - done.start_time)
                                    <= Abs(o.start_time - done.start_time)

\* C21: an event made by hand on the calendar (marker in the title, a UID
\* not of our pattern, no mapping, no matching session) that is there when
\* sync starts is, when the sync returns success, still in the calendar and
\* mapped to a session that exists.
C21_HandMadeImported ==
    [][\A t \in Threads :
        (/\ thr[t].op = "sync"
         /\ thr[t].pc \in {"pull_begin", "pull_events"}
         /\ thr'[t].pc = "idle"
         /\ done'.success)
        => \A uid \in thr[t].hand :
                /\ search_uid(remote', uid) # {}
                /\ \E m \in mappings' : /\ m.calendar_uid = uid
                                        /\ session_exists(sessions', m.session_id)]_vars

\* C22: when a push in which nothing raised has run through, no event of
\* ours (by UID pattern or by marker in the title) is left in the calendar
\* unless its UID is the deterministic UID of a session that exists or is
\* mapped to a session that exists.
C22_SweepRemovesStrays ==
    [][\A t \in Threads :
        (/\ thr[t].pc = "push_sessions"
         /\ thr[t].i > Len(thr[t].sessions)
         /\ thr[t].faulted = {}
         /\ thr'[t].pc # "push_sessions")
        => \A e \in remote' :
                (IsPomodoroUid(e.uid) \/ HasMarker(e.summary)) =>
                    \/ \E s \in sessions' : e.uid = SessionUid(s.id)
                    \/ \E m \in mappings' : /\ m.calendar_uid = e.uid
                                            /\ session_exists(sessions', m.session_id)]_vars

\* the sweep has deleted an event that no mapping knew, and the push goes on
C22_Witness ==
    \E t \in Threads :
        /\ thr[t].pc = "push_sessions"
        /\ thr[t].all_mappings = << >>
        /\ thr[t].deleted = 1
        /\ thr[t].faulted = {}
        /\ Len(thr[t].events) = 1
        /\ remote = {}

\* C23: no step of the two deleting loops of push (the orphaned mappings and
\* the sweep) removes a mapping whose session exists at that moment, nor an
\* event whose UID is mapped to a session that exists at that moment,
\* whatever the other threads do meanwhile.
C23_PushSparesLiveSessions ==
    [][\A t \in Threads :
        (thr[t].pc \in {"push_orphans", "push_sweep"} /\ thr'[t] # thr[t])
        => /\ \A m \in mappings \ mappings' : ~session_exists(sessions, m.session_id)
           /\ \A e \in remote \ remote' :
                \A m \in mappings :
                    m.calendar_uid = e.uid => ~session_exists(sessions, m.session_id)]_vars

\* C24: a session the user deleted stays deleted.  Session ids are never
\* used again, so an id below next_id without a row is a session the user
\* deleted.  Once every call of the engine has returned, the event pushed
\* for such a session is absent from the calendar and no session is mapped
\* to its UID (none was created again from it).
C24_DeletedStaysDeleted ==
    AllIdle =>
        \A id \in 1..MaxId :
            (id < next_id /\ ~session_exists(sessions, id)) =>
                /\ search_uid(remote, SessionUid(id)) = {}
                /\ \A m \in mappings : m.calendar_uid # SessionUid(id)

\* C25: when push comes to a session that has a mapping while the calendar
\* holds no event under the mapped UID, and goes on to the next session, it
\* has created an event under that same UID, the mapping table is as it
\* was, and the session is counted as synced, not as updated.
C25_RecreateUnderMappedUid ==
    [][\A t \in Threads :
        LET me == thr[t]
            s == me.sessions[me.i]
            mapping == get_sync_mapping(mappings, s.id, NoText)
        IN  (/\ me.pc = "push_sessions"
             /\ me.i <= Len(me.sessions)
             /\ thr'[t].pc = "push_sessions"
             /\ thr'[t].i = me.i + 1
             /\ mapping # {}
             /\ \A m \in mapping : search_uid(remote, m.calendar_uid) = {})
            => /\ \A m \in mapping : search_uid(remote', m.calendar_uid) # {}
               /\ Cardinality(remote') = Cardinality(remote) + 1
               /\ mappings' = mappings
               /\ thr'[t].synced = me.synced + 1
               /\ thr'[t].updated = me.updated]_vars

\* a session linked to an event made by hand, the event deleted since, has
\* been pushed: the event is back under the UID of the mapping
C25_Witness ==
    \E t \in Threads :
        /\ thr[t].pc = "push_sessions"
        /\ thr[t].i = 2
        /\ thr[t].synced = 1
        /\ thr[t].events = << >>
        /\ mappings = {MappingRow(1, HandUid, UrlOf(HandUid))}
        /\ search_uid(remote, HandUid) # {}

C27_StaleMappingReimported ==
    [][\A t \in Threads :
        LET me == thr[t]
            ev == me.events[me.i]
            stale == {m \in mappings : /\ m.calendar_uid = ev.uid
                                       /\ \A s \in sessions : s.id # m.session_id}
        IN  (/\ me.pc = "pull_events"
             /\ me.i <= Len(me.events)
             /\ thr'[t] # me
             /\ faults' = faults
             /\ IsPomodoroUid(ev.uid) \/ HasMarker(ev.summary)
             /\ ev.dtstart # NoTime
             /\ stale # {})
            => /\ mappings' \cap stale = {}
               /\ sessions \subseteq sessions'
               /\ Cardinality(sessions' \ sessions) = 1
               /\ \A s \in sessions' \ sessions :
                    /\ s.id = next_id
                    /\ s.task_name = TaskNameOf(ev.summary)
                    /\ s.start_time = ev.dtstart
               /\ {m \in mappings' : m.calendar_uid = ev.uid}
                    = {MappingRow(next_id, ev.uid, UrlOf(ev.uid))}
               /\ thr'[t].imported = me.imported + 1
               /\ thr'[t].updated = me.updated
               /\ thr'[t].skipped = me.skipped]_vars

\* session 1 was pushed, its row was deleted while its mapping stayed, and
\* the pull has imported its event as session 2
C27_Witness ==
    \E t \in Threads :
        /\ thr[t].pc = "pull_events"
        /\ thr[t].op = "pull"
        /\ thr[t].i = 2
        /\ thr[t].imported = 1
        /\ \A s \in sessions : s.id = 2
        /\ mappings = {MappingRow(2, SessionUid(1), UrlOf(SessionUid(1)))}
        /\ done.op = "push"
        /\ done.session_ids = {1}
        /\ env = MaxEnv - 2
        /\ calls = MaxCalls - 2
        /\ faults = MaxFaults

C29_ForeignEventSkipped ==
    [][\A t \in Threads :
        LET me == thr[t]
            ev == me.events[me.i]
        IN  (/\ me.pc = "pull_events"
             /\ me.i <= Len(me.events)
             /\ thr'[t] # me
             /\ ~IsPomodoroUid(ev.uid)
             /\ ~HasMarker(ev.summary))
            => /\ UNCHANGED <<sessions, next_id, mappings>>
               /\ thr'[t].skipped = me.skipped + 1
               /\ thr'[t].imported = me.imported
               /\ thr'[t].updated = me.updated]_vars

\* the pull has passed an event of somebody else, and nothing has raised
C29_Witness ==
    \E t \in Threads :
        /\ thr[t].pc = "pull_events"
        /\ thr[t].i = 2
        /\ ~IsPomodoroUid(thr[t].events[1].uid)
        /\ ~HasMarker(thr[t].events[1].summary)
        /\ thr[t].events[1].dtstart # NoTime
        /\ thr[t].skipped = 1
        /\ faults = MaxFaults

\* C30: no step of a push, whatever the calls of the calendar and of the
\* database do, creates, updates or deletes a session: the sessions table,
\* the next id and the configuration stay as they are (what a push writes
\* is the calendar and the mappings).
C30_PushKeepsSessions ==
    [][\A t \in Threads :
        (/\ thr[t].pc \in {"push_begin", "push_orphans", "push_scan",
                            "push_sweep", "push_sessions"}
         /\ thr'[t] # thr[t])
        => UNCHANGED <<sessions, next_id, config>>]_vars

\* a push has written the event and the mapping of its first session
C30_Witness ==
    \E t \in Threads :
        /\ thr[t].pc = "push_sessions"
        /\ thr[t].i = 2
        /\ thr[t].synced = 1
        /\ thr[t].sessions[1] \in sessions
        /\ \E m \in mappings :
            /\ m.session_id = thr[t].sessions[1].id
            /\ search_uid(remote, m.calendar_uid) # {}

\* C31: no step of a pull creates, updates or deletes an event of the
\* calendar; a pull writes the sessions and the mappings only (the
\* configuration stays), and every session that was in the table before a
\* step of a pull is in the table after it.
C31_PullKeepsRemote ==
    [][\A t \in Threads :
        (/\ thr[t].pc \in {"pull_begin", "pull_events"}
         /\ thr'[t] # thr[t])
        => /\ UNCHANGED <<remote, config>>
           /\ \A s \in sessions : \E n \in sessions' : n.id = s.id]_vars

\* a pull has updated the session of its first event and imported its
\* second, and the calendar holds both events
C31_Witness ==
    \E t \in Threads :
        /\ thr[t].pc = "pull_events"
        /\ thr[t].i = 3
        /\ thr[t].updated = 1
        /\ thr[t].imported = 1
        /\ \A k \in 1..2 : thr[t].events[k] \in remote
        /\ Cardinality(sessions) = 2

\* C32: when a pull counts an event as updated (its UID is mapped to a
\* session, or the lookup found a session without mapping), exactly one
\* session changes or none: its task label, start and end become those of
\* the event (25 minutes after the start when the event has no end), its
\* planned duration the whole seconds from start to end; its id, status and
\* completed duration stay, and so does every other session.
C32_UpdateSetsFourFields ==
    [][\A t \in Threads :
        LET me == thr[t]
            ev == me.events[me.i]
            end_time == IF ev.dtend # NoTime THEN ev.dtend
                        ELSE ev.dtstart + Seconds(DefaultMinutes * 60)
        IN  (/\ me.pc = "pull_events"
             /\ me.i <= Len(me.events)
             /\ thr'[t].updated = me.updated + 1)
            => \E s \in sessions :
                /\ sessions' = (sessions \ {s}) \cup
                        {[id |-> s.id,
                          task_name |-> TaskNameOf(ev.summary),
                          duration_seconds |-> TruncDiv(end_time - ev.dtstart, TicksPerSecond),
                          start_time |-> ev.dtstart,
                          end_time |-> end_time,
                          status |-> s.status,
                          completed_seconds |-> s.completed_seconds]}
                /\ next_id' = next_id]_vars

\* a pull has updated the cancelled session from its event: the planned
\* duration is now the minute the session lasted, status and completed
\* duration are as the timer saved them
C32_Witness ==
    /\ thr["req"].pc = "pull_events"
    /\ thr["req"].op = "pull"
    /\ thr["req"].i = 2
    /\ thr["req"].updated = 1
    /\ \E s \in sessions :
        /\ s.id = 1
        /\ s.status = "cancelled"
        /\ s.completed_seconds = 60
        /\ s.duration_seconds = 60
        /\ s.end_time = s.start_time + Seconds(60)
        /\ \E m \in mappings : m.session_id = 1 /\ thr["req"].events[1].uid = m.calendar_uid

\* C33: inside sync(), after a push that returned success, no step of the
\* pull that follows changes a field of a session the push went through:
\* task label, planned duration, start, end, status and completed duration
\* are as they were when the session was pushed.
C33_PushPullKeepsSession ==
    [][\A t \in Threads :
        (/\ thr[t].op = "sync"
         /\ thr[t].pc = "pull_events"
         /\ thr[t].result_to.success)
        => \A s \in sessions : s.id \in thr[t].processed => s \in sessions']_vars

\* C34: once a sync() has returned success with nothing raising in it, no
\* step of a sync() that follows with no change in between alters the
\* sessions (any field), the mappings (session id and UID) or the events of
\* the calendar (any content); so the second sync leaves all three as the
\* first left them.
C34_SecondSyncChangesNothing ==
    [][\A t \in Threads :
        (/\ quiet >= 1
         /\ thr[t].op = "sync"
         /\ thr'[t] # thr[t])
        => /\ sessions' = sessions
           /\ remote' = remote
           /\ {<<m.session_id, m.calendar_uid>> : m \in mappings'}
                = {<<m.session_id, m.calendar_uid>> : m \in mappings}]_vars

\* C35: set_sync_mapping(session_id, calendar_uid), called while the UID is
\* in the row of another session, does not fail: afterwards the only row
\* that holds the UID is the row of session_id, and the other session is in
\* no row at all.
C35_SetTakesUidOver ==
    [][\A other \in 1..MaxId :
        (/\ calls' = calls - 1
         /\ done'.op = "set"
         /\ other # done'.session_id
         /\ \E m \in mappings : m.session_id = other /\ m.calendar_uid = done'.calendar_uid)
        => /\ \A m \in mappings' :
                m.calendar_uid = done'.calendar_uid => m.session_id = done'.session_id
           /\ \E m \in mappings' :
                m.session_id = done'.session_id /\ m.calendar_uid = done'.calendar_uid
           /\ \A m \in mappings' : m.session_id # other]_vars

\* the UID of session 1 was given to session 2, which had a row of its own:
\* one row is left
C35_Witness ==
    /\ done.op = "set"
    /\ done.session_id = 2
    /\ done.calendar_uid = SessionUid(1)
    /\ done.before = {MappingRow(1, SessionUid(1), NoText),
                      MappingRow(2, SessionUid(2), NoText)}
    /\ mappings = {MappingRow(2, SessionUid(1), done.calendar_url)}

C37_OneRecordPerWorkSession ==
    \A a \in thr["timer"].stored : \A b \in thr["timer"].stored :
        a.work = b.work => a.id = b.id

=========================================================================
